---- MODULE Spec2Model ----
(***************************************************************************)
(* Real-time analytics engine of izishop-backend: event ingestion into the *)
(* time-bucketed metric store (services/analytics_service.py), the chart   *)
(* query engine with its audit log, and the WebSocket subscription broker  *)
(* (services/websocket_service.py, routers/websocket.py).                  *)
(*                                                                         *)
(* Time is counted in ticks of 30 minutes.  An hour key "%Y-%m-%d-%H" is    *)
(* the index of the hour, a date key "%Y-%m-%d" the index of the day.      *)
(* None, absent dictionary keys and SQL NULL are the string Null.          *)
(***************************************************************************)
EXTENDS Integers, Sequences, FiniteSets, TLC

\* ---------------------------------------------------------------- bounds
MaxEvents == 3
MaxSessions == 2
MaxTicks == 2
MaxQueries == 1
MaxConnects == 2
MaxHandled == 1
MaxForecastIds == 2
MaxFaults == 1

\* ------------------------------------------------------- program constants
TicksPerHour == 2
HoursPerDay == 24
StartTick == 46
MinAnomalyPoints == 10

Null == "null"
ShopA == "A"
ShopB == "B"
Shops == {ShopA, ShopB}

Sessions == 1..MaxSessions

VARIABLES
    now,        \* datetime.utcnow(), in ticks
    uuid,       \* number of uuid.uuid4() values drawn so far
    metrics,    \* table analytics_metrics (committed rows, index = id)
    events,     \* table realtime_events (committed rows)
    anomalies,  \* table anomaly_detections (committed rows)
    auditLog,   \* table analytics_audit_logs (committed rows)
    shopRows,   \* table shops of the storefront: the shops that have a row
    sess,       \* the ORM session of each running process_realtime_event
    resp,       \* what the last finished handler gave its caller
    active_connections, \* ConnectionManager.active_connections
    ws_open,    \* the connections whose WebSocket still accepts send_text
    subscriptions,      \* ConnectionManager.subscriptions
    user_sessions,      \* ConnectionManager.user_sessions
    sent,       \* the frames handed to websocket.send_text so far
    task,       \* the running handle_realtime_event coroutine
    forecasts,  \* table ml_forecasts (committed rows)
    db_new      \* Session.new of the session of each WebSocket endpoint:
                \* the MLForecast objects added and not yet flushed

dbVars == <<metrics, events, anomalies, auditLog, shopRows>>
brokerVars == <<active_connections, ws_open, subscriptions, user_sessions, sent, task>>
fcVars == <<forecasts, db_new>>
vars == <<now, uuid, metrics, events, anomalies, auditLog, shopRows, sess, resp,
          active_connections, ws_open, subscriptions, user_sessions, sent, task,
          forecasts, db_new>>

\* ------------------------------------------------------------ time keys
\* timestamp.strftime("%Y-%m-%d-%H")
HourKey(t) == t \div TicksPerHour
\* timestamp.strftime("%Y-%m-%d")
DateKey(t) == t \div (TicksPerHour * HoursPerDay)
\* time_key[:10] of an hour key
DatePrefix(hk) == hk \div HoursPerDay

\* ------------------------------------------------------------- the events
\* event_data dictionaries a domain collaborator may submit
Event(t, ent, shop, amt) ==
    [event_type |-> t, entity_type |-> "order", entity_id |-> ent,
     shop_id |-> shop, category_id |-> Null, region |-> Null, amount |-> amt]

EventInputs ==
    { Event("order_created", 1, ShopA, 0),
      Event("order_created", 2, ShopA, 0),
      Event("order_created", 1, ShopB, 0),
      Event("payment_completed", 3, ShopA, 5000),
      Event("payment_completed", 4, ShopA, -3),
      Event("user_registered", 5, Null, 0),
      Event("page_viewed", 6, ShopA, 0) }

\* event_data.get("region", "unknown")
RegionOf(e) == IF e.region = Null THEN "unknown" ELSE e.region

\* _get_metric_type_from_event
GetMetricTypeFromEvent(e) ==
    IF e.event_type \in {"order_created", "order_completed"} THEN "orders"
    ELSE IF e.event_type \in {"payment_completed", "payment_success"} THEN "revenue"
    ELSE IF e.event_type = "user_registered" THEN "users"
    ELSE Null

\* the (metric_type, shop_id, category_id, region, value) the if/elif chain
\* of _update_metrics_from_event passes to both _upsert_metric calls;
\* metric_type Null when no branch matches
MetricDelta(e) ==
    IF e.event_type = "order_created"
    THEN [metric_type |-> "orders", shop_id |-> e.shop_id,
          category_id |-> e.category_id, region |-> RegionOf(e), value |-> 1]
    ELSE IF e.event_type = "payment_completed"
    THEN [metric_type |-> "revenue", shop_id |-> e.shop_id,
          category_id |-> e.category_id, region |-> RegionOf(e), value |-> e.amount]
    ELSE IF e.event_type = "user_registered"
    THEN [metric_type |-> "users", shop_id |-> Null,
          category_id |-> Null, region |-> RegionOf(e), value |-> 1]
    ELSE [metric_type |-> Null, shop_id |-> Null,
          category_id |-> Null, region |-> Null, value |-> 0]

\* ------------------------------------------------------- the metric store
\* row ids matched by the filter of _upsert_metric
Matching(mt, g, tk, shop, cat, region) ==
    { i \in DOMAIN metrics :
        /\ metrics[i].metric_type = mt
        /\ metrics[i].granularity = g
        /\ IF g = "daily" THEN metrics[i].date_key = tk
                          ELSE metrics[i].hour_key = tk
        /\ metrics[i].shop_id = shop
        /\ metrics[i].category_id = cat
        /\ metrics[i].region = region }

\* the results .first() may return: any matching row (the query has no
\* ORDER BY), 0 (None) when there is none
FirstOf(S) == IF S = {} THEN {0} ELSE S

\* detect_error: _detect_anomalies caught and logged an exception
IdleSession ==
    [pc |-> "idle", event_id |-> 0, data |-> Null, hour_key |-> 0,
     date_key |-> 0, ins |-> <<>>, upd |-> <<>>, anoms |-> <<>>,
     detect_error |-> FALSE]

\* _upsert_metric acting on the session state st, given the row the SELECT
\* returned (existing, 0 for None): the session is autoflush=False, so both
\* branches only change objects held by the session
UpsertMetricCountReset(st, existing, mt, g, tk, shop, cat, region, value, count) ==
    IF existing # 0
    THEN [st EXCEPT !.upd = Append(@, [id |-> existing,
                                       value |-> metrics[existing].value + value,
                                       count |-> count])]
    ELSE [st EXCEPT !.ins = Append(@,
            [metric_type |-> mt, granularity |-> g,
             date_key |-> IF g = "daily" THEN tk ELSE DatePrefix(tk),
             hour_key |-> IF g = "hourly" THEN tk ELSE Null,
             shop_id |-> shop, category_id |-> cat, region |-> region,
             value |-> value, count |-> count])]

UpsertMetric(st, existing, mt, g, tk, shop, cat, region, value, count) ==
    IF existing # 0
    THEN [st EXCEPT !.upd = Append(@, [id |-> existing,
                                       value |-> metrics[existing].value + value,
                                       count |-> metrics[existing].count + count])]
    ELSE [st EXCEPT !.ins = Append(@,
            [metric_type |-> mt, granularity |-> g,
             date_key |-> IF g = "daily" THEN tk ELSE DatePrefix(tk),
             hour_key |-> IF g = "hourly" THEN tk ELSE Null,
             shop_id |-> shop, category_id |-> cat, region |-> region,
             value |-> value, count |-> count])]

\* ------------------------------------------------- process_realtime_event
\* lines 199-209 and 232-240: the session after the event id is drawn, the
\* event added, the clock and the dimensions read
AfterSubmit(e, id) ==
    [IdleSession EXCEPT !.pc = IF MetricDelta(e).metric_type = Null THEN "detect" ELSE "hourly",
                        !.event_id = id,
                        !.data = e,
                        !.hour_key = HourKey(now),
                        !.date_key = DateKey(now)]

\* the rows the SELECT of the hourly _upsert_metric call may return
HourlyExisting(st) ==
    LET d == MetricDelta(st.data) IN
    FirstOf(Matching(d.metric_type, "hourly", st.hour_key,
                     d.shop_id, d.category_id, d.region))

\* the first _upsert_metric call of the matching branch (hourly bucket)
AfterHourly(st, existing) ==
    LET d == MetricDelta(st.data) IN
    [UpsertMetric(st, existing, d.metric_type, "hourly", st.hour_key,
                  d.shop_id, d.category_id, d.region, d.value, 1)
       EXCEPT !.pc = "daily"]

\* the rows the SELECT of the daily _upsert_metric call may return
DailyExisting(st) ==
    LET d == MetricDelta(st.data) IN
    FirstOf(Matching(d.metric_type, "daily", st.date_key,
                     d.shop_id, d.category_id, d.region))

\* the second _upsert_metric call of the matching branch (daily bucket)
AfterDaily(st, existing) ==
    LET d == MetricDelta(st.data) IN
    [UpsertMetric(st, existing, d.metric_type, "daily", st.date_key,
                  d.shop_id, d.category_id, d.region, d.value, 1)
       EXCEPT !.pc = "detect"]

\* ------------------------------------------------------- _detect_anomalies
\* the value of row i as the session sees it: a row the session has changed
\* keeps the changed value (identity map), pending inserts are not flushed
SeenValue(st, i) ==
    IF \E k \in DOMAIN st.upd : st.upd[k].id = i
    THEN st.upd[CHOOSE k \in DOMAIN st.upd : st.upd[k].id = i].value
    ELSE metrics[i].value

\* recent_metrics: hourly rows of the metric type of the last 24 hours, of
\* every shop, category and region
RecentMetrics(mt) ==
    { i \in DOMAIN metrics :
        /\ metrics[i].metric_type = mt
        /\ metrics[i].granularity = "hourly"
        /\ metrics[i].timestamp >= now - HoursPerDay * TicksPerHour }

\* recent_metrics[-1] after ORDER BY timestamp ASC: a row of the greatest
\* timestamp (rows of equal timestamp come in any order)
LatestOf(S) == { i \in S : \A j \in S : metrics[j].timestamp <= metrics[i].timestamp }

RECURSIVE SumSeen(_, _)
SumSeen(st, S) ==
    IF S = {} THEN 0
    ELSE LET i == CHOOSE x \in S : TRUE IN SeenValue(st, i) + SumSeen(st, S \ {i})

Abs(x) == IF x < 0 THEN -x ELSE x

\* severity of lines 436-444 for actual value a and expected value
\* sum/n (the mean of the other n points), in exact arithmetic
Severity(a, sum, n) ==
    IF sum <= 0 THEN "low"
    ELSE IF 2 * Abs(n * a - sum) > sum THEN "critical"
    ELSE IF 10 * Abs(n * a - sum) > 3 * sum THEN "high"
    ELSE IF 100 * Abs(n * a - sum) > 15 * sum THEN "medium"
    ELSE "low"

\* lines 432-460: the AnomalyDetection added for the row latest
NewAnomaly(st, mt, recent, latest, id) ==
    [detection_id |-> id, metric_type |-> mt,
     actual_value |-> SeenValue(st, latest),
     expected_sum |-> SumSeen(st, recent \ {latest}),
     expected_n |-> Cardinality(recent) - 1,
     severity |-> Severity(SeenValue(st, latest),
                           SumSeen(st, recent \ {latest}),
                           Cardinality(recent) - 1),
     shop_id |-> st.data.shop_id, category_id |-> st.data.category_id,
     region |-> st.data.region,
     acknowledged |-> FALSE, acknowledged_by |-> Null,
     acknowledged_at |-> Null]

\* the sessions _detect_anomalies may leave; IsolationForest.fit_predict is
\* a fitted outlier model whose verdict on the last point is left open, and
\* it raises ValueError on values it cannot take (NaN, infinity, beyond
\* float32), which the except clause of line 462 logs
AfterDetectAborts(st, id) ==
    LET mt == GetMetricTypeFromEvent(st.data)
        recent == IF mt = Null THEN {} ELSE RecentMetrics(mt)
    IN  IF mt = Null \/ Cardinality(recent) < MinAnomalyPoints
        THEN { [st EXCEPT !.pc = "commit"] }
        ELSE { [st EXCEPT !.pc = "commit"],
               [st EXCEPT !.pc = "commit", !.detect_error = TRUE,
                          !.ins = <<>>, !.upd = <<>>] } \cup
             { [st EXCEPT !.pc = "commit",
                          !.anoms = Append(@, NewAnomaly(st, mt, recent, latest, id))] :
               latest \in LatestOf(recent) }

AfterDetect(st, id) ==
    LET mt == GetMetricTypeFromEvent(st.data)
        recent == IF mt = Null THEN {} ELSE RecentMetrics(mt)
    IN  IF mt = Null \/ Cardinality(recent) < MinAnomalyPoints
        THEN { [st EXCEPT !.pc = "commit"] }
        ELSE { [st EXCEPT !.pc = "commit"],
               [st EXCEPT !.pc = "commit", !.detect_error = TRUE] } \cup
             { [st EXCEPT !.pc = "commit",
                          !.anoms = Append(@, NewAnomaly(st, mt, recent, latest, id))] :
               latest \in LatestOf(recent) }

\* ------------------------------------------------------------- db.commit()
\* the UPDATE statements of the flush: SQLAlchemy writes the attribute
\* values the session computed (SET value = :v, count = :c WHERE id = :id)
RECURSIVE ApplyUpdates(_, _)
ApplyUpdates(rows, upd) ==
    IF upd = <<>> THEN rows
    ELSE ApplyUpdates([rows EXCEPT ![Head(upd).id].value = Head(upd).value,
                                   ![Head(upd).id].count = Head(upd).count],
                      Tail(upd))

\* an inserted analytics_metrics row; the column default datetime.utcnow
\* fills timestamp
Stamp(r, t) ==
    [metric_type |-> r.metric_type, granularity |-> r.granularity,
     date_key |-> r.date_key, hour_key |-> r.hour_key, shop_id |-> r.shop_id,
     category_id |-> r.category_id, region |-> r.region, value |-> r.value,
     count |-> r.count, timestamp |-> t]

\* an inserted anomaly_detections row
StampAnomaly(a, t) ==
    [detection_id |-> a.detection_id, metric_type |-> a.metric_type,
     actual_value |-> a.actual_value, expected_sum |-> a.expected_sum,
     expected_n |-> a.expected_n, severity |-> a.severity,
     shop_id |-> a.shop_id, category_id |-> a.category_id, region |-> a.region,
     acknowledged |-> a.acknowledged, acknowledged_by |-> a.acknowledged_by,
     acknowledged_at |-> a.acknowledged_at, timestamp |-> t]

\* the tables after lines 217-221 (mark processed, commit) for session st
CommittedMetrics(st) ==
    ApplyUpdates(metrics, st.upd) \o [k \in DOMAIN st.ins |-> Stamp(st.ins[k], now)]

CommittedEvents(st) ==
    Append(events, [event_id |-> st.event_id, event_type |-> st.data.event_type,
                    data |-> st.data, processed |-> TRUE, timestamp |-> now])

CommittedAnomalies(st) ==
    anomalies \o [k \in DOMAIN st.anoms |-> StampAnomaly(st.anoms[k], now)]

\* --------------------------------------- process_realtime_event, by steps
\* the events stored since the start of the run
Ingested == Cardinality({ k \in DOMAIN events : events[k].timestamp >= StartTick })

\* a call starts.  seq = TRUE is the single event loop, where a call runs
\* to its commit before the next one starts.
Submit(s, e, seq) ==
    /\ sess[s].pc = "idle"
    /\ seq => \A t \in Sessions : sess[t].pc = "idle"
    /\ Ingested + Cardinality({t \in Sessions : sess[t].pc # "idle"}) < MaxEvents
    /\ uuid' = uuid + 1
    /\ sess' = [sess EXCEPT ![s] = AfterSubmit(e, uuid + 1)]
    /\ UNCHANGED <<now, dbVars, resp, brokerVars, fcVars>>

UpsertHourly(s) ==
    /\ sess[s].pc = "hourly"
    /\ \E existing \in HourlyExisting(sess[s]) :
          sess' = [sess EXCEPT ![s] = AfterHourly(sess[s], existing)]
    /\ UNCHANGED <<now, uuid, dbVars, resp, brokerVars, fcVars>>

UpsertDaily(s) ==
    /\ sess[s].pc = "daily"
    /\ \E existing \in DailyExisting(sess[s]) :
          sess' = [sess EXCEPT ![s] = AfterDaily(sess[s], existing)]
    /\ UNCHANGED <<now, uuid, dbVars, resp, brokerVars, fcVars>>

DetectAnomalies(s) ==
    /\ sess[s].pc = "detect"
    /\ \E st \in AfterDetect(sess[s], uuid + 1) :
          /\ sess' = [sess EXCEPT ![s] = st]
          /\ uuid' = IF st.anoms = <<>> THEN uuid ELSE uuid + 1
    /\ UNCHANGED <<now, dbVars, resp, brokerVars, fcVars>>

Commit(s) ==
    /\ sess[s].pc = "commit"
    /\ metrics' = CommittedMetrics(sess[s])
    /\ events' = CommittedEvents(sess[s])
    /\ anomalies' = CommittedAnomalies(sess[s])
    /\ sess' = [sess EXCEPT ![s] = IdleSession]
    /\ UNCHANGED <<now, uuid, auditLog, shopRows, resp, brokerVars, fcVars>>

\* the clock advances; in the single event loop no call is in progress
Tick(seq) ==
    /\ now < StartTick + MaxTicks
    /\ seq => \A t \in Sessions : sess[t].pc = "idle"
    /\ now' = now + 1
    /\ UNCHANGED <<uuid, dbVars, sess, resp, brokerVars, fcVars>>

NoResponse == [op |-> "none", status |-> "none"]

Topics == {"analytics", "shop_analytics", "anomalies", "forecasts"}

Users == {"admin", "ownerA", "ownerB", "ownerNew", "customer"}

NoTask == [pc |-> "idle"]

Init ==
    /\ now = StartTick
    /\ uuid = 0
    /\ metrics = <<>>
    /\ events = <<>>
    /\ anomalies = <<>>
    /\ auditLog = <<>>
    /\ shopRows = Shops
    /\ sess = [s \in Sessions |-> IdleSession]
    /\ resp = NoResponse
    /\ active_connections = <<>>
    /\ ws_open = {}
    /\ subscriptions = [t \in Topics |-> {}]
    /\ user_sessions = [u \in Users |-> {}]
    /\ sent = {}
    /\ task = NoTask
    /\ forecasts = <<>>
    /\ db_new = <<>>

\* ingestion on one event loop: calls of process_realtime_event run one
\* after another
NextSeq ==
    \/ \E s \in Sessions, e \in EventInputs : Submit(s, e, TRUE)
    \/ \E s \in Sessions : UpsertHourly(s)
    \/ \E s \in Sessions : UpsertDaily(s)
    \/ \E s \in Sessions : DetectAnomalies(s)
    \/ \E s \in Sessions : Commit(s)
    \/ Tick(TRUE)

SpecSeq == Init /\ [][NextSeq]_vars

\* ingestion by several workers on one database: the statements of
\* concurrent calls interleave
NextConc ==
    \/ \E s \in Sessions, e \in EventInputs : Submit(s, e, FALSE)
    \/ \E s \in Sessions : UpsertHourly(s)
    \/ \E s \in Sessions : UpsertDaily(s)
    \/ \E s \in Sessions : DetectAnomalies(s)
    \/ \E s \in Sessions : Commit(s)
    \/ Tick(FALSE)

SpecConc == Init /\ [][NextConc]_vars

\* ----------------------------------------------------- ingestion: claims
AllIdle == \A s \in Sessions : sess[s].pc = "idle"

\* the bucket key of metric row r
BucketKey(r) == IF r.granularity = "daily" THEN r.date_key ELSE r.hour_key

\* the bucket key, at the granularity of row r, of an event stored at t
BucketAt(r, t) == IF r.granularity = "daily" THEN DateKey(t) ELSE HourKey(t)

SameKey(r, q) ==
    /\ r.metric_type = q.metric_type
    /\ r.granularity = q.granularity
    /\ BucketKey(r) = BucketKey(q)
    /\ r.shop_id = q.shop_id
    /\ r.category_id = q.category_id
    /\ r.region = q.region

\* the stored events that were ingested into the bucket of metric row r
EventsOf(r) ==
    { k \in DOMAIN events :
        /\ events[k].processed
        /\ MetricDelta(events[k].data).metric_type = r.metric_type
        /\ MetricDelta(events[k].data).shop_id = r.shop_id
        /\ MetricDelta(events[k].data).category_id = r.category_id
        /\ MetricDelta(events[k].data).region = r.region
        /\ BucketAt(r, events[k].timestamp) = BucketKey(r) }

RECURSIVE SumDeltas(_)
SumDeltas(K) ==
    IF K = {} THEN 0
    ELSE LET k == CHOOSE x \in K : TRUE
         IN MetricDelta(events[k].data).value + SumDeltas(K \ {k})

RECURSIVE SumField(_, _)
SumField(I, f) ==
    IF I = {} THEN 0
    ELSE LET i == CHOOSE x \in I : TRUE
         IN (IF f = "value" THEN metrics[i].value ELSE metrics[i].count)
            + SumField(I \ {i}, f)

RowsOfKey(r) == { j \in DOMAIN metrics : SameKey(metrics[j], r) }

\* C1: replaying an event is a no-op: every MetricPoint has counted each
\* distinct submitted event at most once, so its sample_count never exceeds
\* the number of distinct events ingested into its bucket
C1_ReplayIsNoOp ==
    \A i \in DOMAIN metrics :
        metrics[i].count <= Cardinality({ events[k].data : k \in EventsOf(metrics[i]) })

\* C2: K order_created events with the same dimensions ingested one after
\* another into a fresh bucket leave exactly one "orders" MetricPoint for the
\* hourly and for the daily bucket, with value = K and sample_count = K
C2_OrdersCountK ==
    \A i \in DOMAIN metrics :
        metrics[i].metric_type = "orders" =>
            /\ RowsOfKey(metrics[i]) = {i}
            /\ Cardinality(EventsOf(metrics[i])) >= 1
            /\ metrics[i].value = Cardinality(EventsOf(metrics[i]))
            /\ metrics[i].count = Cardinality(EventsOf(metrics[i]))

\* C2 witness: several order_created events of one shop were ingested into
\* the same hourly bucket, and several into the same daily bucket
C2_Witness ==
    /\ \E i \in DOMAIN metrics :
        /\ metrics[i].metric_type = "orders"
        /\ metrics[i].granularity = "hourly"
        /\ Cardinality(EventsOf(metrics[i])) >= 2
    /\ \E i \in DOMAIN metrics :
        /\ metrics[i].metric_type = "orders"
        /\ metrics[i].granularity = "daily"
        /\ Cardinality(EventsOf(metrics[i])) >= 2

\* C3: the upsert is linearizable per key: once the concurrent ingests of a
\* bucket have finished, the value stored for every key is the sum of the
\* deltas of the events ingested into it and its sample_count is their
\* number (stated for the runs in which all events fall into the first
\* bucket, where the stored events tell the bucket each one went to)
C3_NoLostUpdate ==
    (AllIdle /\ now = StartTick) =>
        \A i \in DOMAIN metrics :
            /\ SumField(RowsOfKey(metrics[i]), "count") = Cardinality(EventsOf(metrics[i]))
            /\ SumField(RowsOfKey(metrics[i]), "value") = SumDeltas(EventsOf(metrics[i]))

\* C4: at most one MetricPoint row per (metric_type, granularity, bucket
\* key, shop_id, category_id, region)
C4_UniqueMetricPoint ==
    \A i, j \in DOMAIN metrics : SameKey(metrics[i], metrics[j]) => i = j

\* C5: every MetricPoint has value >= 0 and sample_count >= 0 and no step
\* decreases the sample_count of an existing row
C5_NonNegativeMonotone ==
    [][ /\ \A i \in DOMAIN metrics' : metrics'[i].value >= 0 /\ metrics'[i].count >= 0
        /\ \A i \in DOMAIN metrics : metrics'[i].count >= metrics[i].count ]_vars

\* ------------------------------------------------------ actors and shops
\* user.role.value of the accounts
RoleOf(u) ==
    IF u = "admin" THEN "ADMIN"
    ELSE IF u \in {"ownerA", "ownerB", "ownerNew"} THEN "SHOP_OWNER"
    ELSE "CUSTOMER"

\* the shop of each shop owner (Shop.owner_id), created or still to create
ShopNew == "C"

ShopOfOwner(u) ==
    IF u = "ownerA" THEN ShopA
    ELSE IF u = "ownerB" THEN ShopB
    ELSE IF u = "ownerNew" THEN ShopNew
    ELSE Null

\* db.query(Shop).filter(Shop.owner_id == user.id).first(), Null for None
ResolveShop(u) == IF ShopOfOwner(u) \in shopRows THEN ShopOfOwner(u) ELSE Null

\* routers/analytics.py imports no name Shop: db.query(Shop) raises
\* NameError in its handlers
AnalyticsRouterShopBound == FALSE

\* create_shop: a shop owner without shop creates theirs
CreateShop(u) ==
    /\ RoleOf(u) = "SHOP_OWNER"
    /\ ShopOfOwner(u) \notin shopRows
    /\ shopRows' = shopRows \cup {ShopOfOwner(u)}
    /\ UNCHANGED <<now, uuid, metrics, events, anomalies, auditLog, sess, resp, brokerVars, fcVars>>

\* ----------------------------------------------- get_realtime_chart_data
\* lines 88-105: the granularity the service uses, whatever it was passed
ChartGranularity(time_range, granularity) ==
    IF time_range \in {"1h", "24h"} THEN "hourly" ELSE "daily"

\* lines 88-105: now - start_time, in ticks
RangeTicks(time_range) ==
    IF time_range = "1h" THEN TicksPerHour
    ELSE IF time_range = "24h" THEN HoursPerDay * TicksPerHour
    ELSE IF time_range = "7d" THEN 7 * HoursPerDay * TicksPerHour
    ELSE IF time_range = "90d" THEN 90 * HoursPerDay * TicksPerHour
    ELSE 30 * HoursPerDay * TicksPerHour

\* lines 108-122: the rows the filtered query selects
\* (M is the analytics_metrics table the query reads)
ChartRowsAnyGranularity(M, metric_type, time_range, granularity, shop_id, category_id, region) ==
    { i \in DOMAIN M :
        /\ M[i].metric_type = metric_type
        /\ M[i].timestamp >= now - RangeTicks(time_range)
        /\ shop_id # Null => M[i].shop_id = shop_id
        /\ category_id # Null => M[i].category_id = category_id
        /\ region # Null => M[i].region = region }

ChartRows(M, metric_type, time_range, granularity, shop_id, category_id, region) ==
    { i \in DOMAIN M :
        /\ M[i].metric_type = metric_type
        /\ M[i].granularity = ChartGranularity(time_range, granularity)
        /\ M[i].timestamp >= now - RangeTicks(time_range)
        /\ shop_id # Null => M[i].shop_id = shop_id
        /\ category_id # Null => M[i].category_id = category_id
        /\ region # Null => M[i].region = region }

\* the shops whose rows a chart holds
ChartShops(M, metric_type, time_range, shop_id) ==
    { M[i].shop_id : i \in ChartRows(M, metric_type, time_range, "hourly", shop_id, Null, Null) }
        \ {Null}

\* ORDER BY timestamp ASC (rows of equal timestamp in id order)
RECURSIVE OrderByTimestamp(_)
OrderByTimestamp(S) ==
    IF S = {} THEN <<>>
    ELSE LET m == CHOOSE i \in S : \A j \in S :
                    \/ metrics[i].timestamp < metrics[j].timestamp
                    \/ metrics[i].timestamp = metrics[j].timestamp /\ i <= j
         IN <<m>> \o OrderByTimestamp(S \ {m})

\* .limit(30) of get_forecast_data
ForecastLimit == 30

\* ORDER BY forecast_date ASC (rows of equal date in id order)
RECURSIVE OrderByForecastDate(_)
OrderByForecastDate(S) ==
    IF S = {} THEN <<>>
    ELSE LET m == CHOOSE i \in S : \A j \in S :
                    \/ forecasts[i].forecast_date < forecasts[j].forecast_date
                    \/ forecasts[i].forecast_date = forecasts[j].forecast_date /\ i <= j
         IN <<m>> \o OrderByForecastDate(S \ {m})

\* get_forecast_data: the ml_forecasts rows of the metric type that lie
\* ahead and pass the filters that were given, the first 30 by date
GetForecastData(metric_type, shop_id, category_id, region) ==
    LET ord == OrderByForecastDate(
                 { i \in DOMAIN forecasts :
                     /\ forecasts[i].metric_type = metric_type
                     /\ forecasts[i].forecast_date >= now
                     /\ shop_id # Null => forecasts[i].shop_id = shop_id
                     /\ category_id # Null => forecasts[i].category_id = category_id
                     /\ region # Null => forecasts[i].region = region })
    IN IF Len(ord) <= ForecastLimit THEN ord ELSE SubSeq(ord, 1, ForecastLimit)

\* lines 125-183: the ChartResponse
ChartResponse(metric_type, time_range, granularity, shop_id, category_id, region) ==
    LET rows == ChartRows(metrics, metric_type, time_range, granularity, shop_id, category_id, region)
        ord == OrderByTimestamp(rows)
    IN [op |-> "chart", status |-> "ok",
        metric_type |-> metric_type, time_range |-> time_range,
        granularity |-> ChartGranularity(time_range, granularity),
        data |-> [k \in DOMAIN ord |->
                    [timestamp |-> metrics[ord[k]].timestamp,
                     date |-> metrics[ord[k]].date_key,
                     value |-> metrics[ord[k]].value,
                     count |-> metrics[ord[k]].count]],
        total |-> SumField(rows, "value"),
        count |-> SumField(rows, "count"),
        forecast |-> [k \in DOMAIN GetForecastData(metric_type, shop_id, category_id, region) |->
                        forecasts[GetForecastData(metric_type, shop_id, category_id, region)[k]].forecast_date],
        shop_id |-> shop_id,
        shops |-> ChartShops(metrics, metric_type, time_range, shop_id)]

\* log_audit_event: the AnalyticsAuditLog row it adds
AuditRow(user_id, user_role, action, resource, shop_id, time_range, status) ==
    [user_id |-> user_id, user_role |-> user_role, action |-> action,
     resource |-> resource, shop_id |-> shop_id, time_range |-> time_range,
     status |-> status]

\* lines 153-162: the audit row of a chart query, none without user_id
ChartAudit(metric_type, time_range, shop_id, user_id, user_role) ==
    IF user_id = Null THEN <<>>
    ELSE << AuditRow(user_id, user_role, "view_chart", metric_type,
                     shop_id, time_range, "success") >>

\* ------------------------------------------------ routers/analytics.py
QueryMetricInputs == {"revenue", "orders", "clicks"}
QueryRangeInputs == {"1h", "7d"}
ValidMetrics == {"revenue", "orders", "users", "sessions", "conversion",
                 "average_order_value"}

HttpResult(op, status) == [op |-> op, status |-> status]

\* the audit rows written by chart and overview requests, as opposed to
\* the rows of the "24h" charts a connection is sent when it opens
QueriesLogged ==
    Len(SelectSeq(auditLog, LAMBDA r : r.action # "process_event" /\ r.time_range # "24h"))

\* GET /analytics/charts/realtime/{metric_type}; granularity is the query
\* parameter ("auto" when the caller gives none), kept with the answer as
\* "asked"
HttpChart(u, metric_type, time_range, granularity, shop_id) ==
    /\ QueriesLogged < MaxQueries
    /\ IF RoleOf(u) \notin {"ADMIN", "SHOP_OWNER"}
       THEN /\ resp' = HttpResult("http_chart", 403)
            /\ UNCHANGED auditLog
       ELSE IF RoleOf(u) = "SHOP_OWNER" /\ ~AnalyticsRouterShopBound
       THEN \* NameError, caught by except Exception: failed audit, 500
            /\ resp' = HttpResult("http_chart", 500)
            /\ auditLog' = Append(auditLog,
                  AuditRow(u, RoleOf(u), "view_chart", metric_type, Null, Null, "failed"))
       ELSE IF RoleOf(u) = "SHOP_OWNER" /\ ResolveShop(u) = Null
       THEN /\ resp' = HttpResult("http_chart", 404)
            /\ UNCHANGED auditLog
       ELSE IF metric_type \notin ValidMetrics
       THEN /\ resp' = HttpResult("http_chart", 400)
            /\ UNCHANGED auditLog
       ELSE LET shop == IF RoleOf(u) = "SHOP_OWNER" THEN ResolveShop(u) ELSE shop_id
                g == IF granularity = "auto"
                     THEN IF time_range \in {"1h", "24h"} THEN "hourly" ELSE "daily"
                     ELSE granularity
            IN /\ resp' = ChartResponse(metric_type, time_range, g, shop, Null, Null)
                            @@ ("asked" :> granularity)
               /\ auditLog' = auditLog \o ChartAudit(metric_type, time_range, shop, u, RoleOf(u))
    /\ UNCHANGED <<now, uuid, metrics, events, anomalies, shopRows, sess, brokerVars, fcVars>>

\* GET /analytics/dashboard/overview
HttpOverview(u, time_range) ==
    /\ QueriesLogged < MaxQueries
    /\ IF RoleOf(u) \notin {"ADMIN", "SHOP_OWNER"}
       THEN /\ resp' = HttpResult("http_overview", 403)
            /\ UNCHANGED auditLog
       ELSE IF RoleOf(u) = "SHOP_OWNER" /\ ~AnalyticsRouterShopBound
       THEN \* NameError, caught by except Exception: 500
            /\ resp' = HttpResult("http_overview", 500)
            /\ UNCHANGED auditLog
       ELSE LET shop == IF RoleOf(u) = "SHOP_OWNER" THEN ResolveShop(u) ELSE Null
                mts == IF RoleOf(u) = "ADMIN" THEN <<"revenue", "orders", "users">>
                                              ELSE <<"revenue", "orders">>
            IN /\ resp' = [op |-> "http_overview", status |-> 200,
                           revenue |-> ChartResponse("revenue", time_range, "hourly", shop, Null, Null).total,
                           orders |-> ChartResponse("orders", time_range, "hourly", shop, Null, Null).total,
                           shop_id |-> shop]
               /\ auditLog' = auditLog
                    \o [k \in DOMAIN mts |->
                          AuditRow(u, RoleOf(u), "view_chart", mts[k], shop, time_range, "success")]
                    \o << AuditRow(u, RoleOf(u), "view_overview", "analytics_overview",
                                   Null, time_range, "success") >>
    /\ UNCHANGED <<now, uuid, metrics, events, anomalies, shopRows, sess, brokerVars, fcVars>>

\* ------------------------------------------------------ ConnectionManager
\* the registry as one value: active_connections, subscriptions,
\* user_sessions, the frames sent and the open WebSockets
Broker == [ac |-> active_connections, subs |-> subscriptions,
           us |-> user_sessions, sent |-> sent, open |-> ws_open]

\* a frame handed to send_text: the message, the connection, its user
Frame(c, u, msg) ==
    [to |-> c, user |-> u, type |-> msg.type, topic |-> msg.topic,
     event_id |-> msg.event_id, shop_id |-> msg.shop_id, shops |-> msg.shops]

\* a message: its "type", the subscription it is broadcast to (Null for a
\* personal message), the event it is about, its top-level "shop_id" key
\* and the shops whose figures its payload holds
Message(type, topic, event_id, shop_id, shops) ==
    [type |-> type, topic |-> topic, event_id |-> event_id,
     shop_id |-> shop_id, shops |-> shops]

\* ConnectionManager.disconnect
DisconnectKeepsSubscriptions(B, c) ==
    IF c \in DOMAIN B.ac
    THEN [B EXCEPT !.us = [B.us EXCEPT ![B.ac[c].user_id] = @ \ {c}],
                   !.ac = [x \in DOMAIN B.ac \ {c} |-> B.ac[x]]]
    ELSE B

Disconnect(B, c) ==
    IF c \in DOMAIN B.ac
    THEN [B EXCEPT !.subs = [t \in Topics |-> B.subs[t] \ {c}],
                   !.us = [B.us EXCEPT ![B.ac[c].user_id] = @ \ {c}],
                   !.ac = [x \in DOMAIN B.ac \ {c} |-> B.ac[x]]]
    ELSE B

\* ConnectionManager.send_personal_message: send_text raises when the
\* WebSocket is no longer open, and the connection is then dropped
SendPersonalMessage(B, c, msg) ==
    IF c \in DOMAIN B.ac
    THEN IF c \in B.open
         THEN [B EXCEPT !.sent = @ \cup {Frame(c, B.ac[c].user_id, msg)},
                        !.ac = [@ EXCEPT ![c].last_activity = now]]
         ELSE Disconnect(B, c)
    ELSE B

RECURSIVE SendAll(_, _, _)
SendAll(B, c, msgs) ==
    IF msgs = <<>> THEN B
    ELSE SendAll(SendPersonalMessage(B, c, Head(msgs)), c, Tail(msgs))

\* ConnectionManager._check_access_permission; filters_shop is
\* filters.get("shop_id") of the broadcast, Null without filters
CheckAccessPermission(connection_info, message, filters_shop) ==
    IF connection_info.user_role = "ADMIN" THEN TRUE
    ELSE IF connection_info.user_role = "SHOP_OWNER"
    THEN LET message_shop_id == IF message.shop_id # Null THEN message.shop_id
                                ELSE filters_shop
             connection_shop_id == connection_info.filters_shop
         IN IF message_shop_id # Null /\ connection_shop_id # Null
            THEN message_shop_id = connection_shop_id
            ELSE TRUE
    ELSE FALSE

\* ------------------------------------------------- routers/websocket.py
ConnectionTypeInputs == {"analytics", "dashboard"}

\* routers/websocket.py binds no name datetime at module level: building a
\* frame with datetime.utcnow() raises NameError outside the handlers that
\* import it locally
WebsocketRouterDatetimeBound == FALSE

\* get_recent_anomalies(db, metric_type, shop_id) on the anomaly_detections
\* table An: the rows of the last 24 hours, newest first, at most 10
RecentAnomalies(An, metric_type, shop_id) ==
    { k \in DOMAIN An :
        /\ An[k].metric_type = metric_type
        /\ An[k].timestamp >= now - HoursPerDay * TicksPerHour
        /\ shop_id # Null => An[k].shop_id = shop_id
        /\ Cardinality({ j \in DOMAIN An :
                           /\ An[j].metric_type = metric_type
                           /\ An[j].timestamp >= now - HoursPerDay * TicksPerHour
                           /\ shop_id # Null => An[j].shop_id = shop_id
                           /\ j > k }) < 10 }

\* send_initial_analytics_data: the frames sent after the welcome frame
InitialFrames(u, shop_id) ==
    LET mts == IF RoleOf(u) = "ADMIN" THEN <<"revenue", "orders", "users">>
                                      ELSE <<"revenue", "orders">>
        recent == RecentAnomalies(anomalies, "revenue", shop_id)
                      \cup RecentAnomalies(anomalies, "orders", shop_id)
    IN << Message("initial_data", Null, 0, shop_id, {}) >>
       \o [k \in DOMAIN mts |->
             Message("initial_chart_data", Null, 0, Null,
                     ChartResponse(mts[k], "24h", "hourly", shop_id, Null, Null).shops)]
       \o (IF recent = {} THEN <<>>
           ELSE << Message("initial_anomalies", Null, 0, Null,
                           { anomalies[k].shop_id : k \in recent } \ {Null}) >>)

\* the audit rows of the chart queries of send_initial_analytics_data
InitialAudit(u, shop_id) ==
    LET mts == IF RoleOf(u) = "ADMIN" THEN <<"revenue", "orders", "users">>
                                      ELSE <<"revenue", "orders">>
    IN [k \in DOMAIN mts |->
          AuditRow(u, RoleOf(u), "view_chart", mts[k], shop_id, "24h", "success")]

\* ConnectionManager.connect: register the connection, send the welcome
\* frame
ManagerConnect(B, c, u, connection_type, filters_shop) ==
    SendPersonalMessage(
        [B EXCEPT !.open = @ \cup {c},
                  !.ac = [x \in DOMAIN B.ac \cup {c} |->
                            IF x = c
                            THEN [user_id |-> u, user_role |-> RoleOf(u),
                                  connection_type |-> connection_type,
                                  filters_shop |-> filters_shop,
                                  connected_at |-> now, last_activity |-> now]
                            ELSE B.ac[x]],
                  !.subs = IF connection_type \in Topics
                           THEN [B.subs EXCEPT ![connection_type] = @ \cup {c}]
                           ELSE B.subs,
                  !.us = [B.us EXCEPT ![u] = @ \cup {c}]],
        c, Message("connection_established", Null, 0, Null, {}))

SetBroker(B) ==
    /\ active_connections' = B.ac
    /\ subscriptions' = B.subs
    /\ user_sessions' = B.us
    /\ sent' = B.sent
    /\ ws_open' = B.open

\* websocket_analytics_endpoint up to its receive loop (lines 30-73), for a
\* token that authenticates u
Connect(u, connection_type, shop_id) ==
    /\ uuid - Len(events) - Len(anomalies) < MaxConnects
    /\ IF RoleOf(u) \notin {"ADMIN", "SHOP_OWNER"}
       THEN /\ resp' = [op |-> "ws_connect", status |-> 4003]
            /\ UNCHANGED <<uuid, auditLog, brokerVars, db_new>>
       ELSE IF RoleOf(u) = "SHOP_OWNER" /\ ResolveShop(u) = Null
       THEN /\ resp' = [op |-> "ws_connect", status |-> 4004]
            /\ UNCHANGED <<uuid, auditLog, brokerVars, db_new>>
       ELSE LET user_shop_id == IF RoleOf(u) = "SHOP_OWNER" THEN ResolveShop(u)
                                ELSE shop_id
                c == uuid + 1
            IN /\ uuid' = c
               /\ SetBroker(SendAll(ManagerConnect(Broker, c, u, connection_type, user_shop_id),
                                    c, InitialFrames(u, user_shop_id)))
               /\ auditLog' = auditLog \o InitialAudit(u, user_shop_id)
               /\ db_new' = [x \in DOMAIN db_new \cup {c} |->
                                IF x = c THEN <<>> ELSE db_new[x]]
               /\ UNCHANGED <<resp, task>>
    /\ UNCHANGED <<now, metrics, events, anomalies, shopRows, sess, forecasts>>

\* handle_subscription_request
SubscriptionInputs == {"anomalies", "shop_analytics"}
FilterInputs == {"absent", ShopB}
ValidSubscriptions == {"analytics", "anomalies", "forecasts"}

\* the handler without its test of the registry
SubscribeUnregistered(c, subscription_type, filters_shop) ==
    /\ c \in DOMAIN db_new
    /\ resp' = [op |-> "subscribe", connection_id |-> c,
                subscription_type |-> subscription_type, filters_shop |-> filters_shop]
    /\ IF subscription_type \notin ValidSubscriptions
       THEN /\ IF WebsocketRouterDatetimeBound
               THEN SetBroker(SendPersonalMessage(Broker, c,
                        Message("subscription_error", Null, 0, Null, {})))
               ELSE UNCHANGED brokerVars
            /\ UNCHANGED task
       ELSE IF c \notin DOMAIN active_connections
       THEN /\ SetBroker([Broker EXCEPT
                            !.subs = [@ EXCEPT ![subscription_type] = @ \cup {c}]])
            /\ UNCHANGED task
       ELSE LET B1 == [Broker EXCEPT
                         !.ac = [@ EXCEPT ![c].connection_type = subscription_type,
                                          ![c].filters_shop =
                                              IF filters_shop = "absent" THEN @
                                              ELSE filters_shop],
                         !.subs = [@ EXCEPT ![subscription_type] = @ \cup {c}]]
            IN /\ IF WebsocketRouterDatetimeBound
                  THEN SetBroker(SendPersonalMessage(B1, c,
                           Message("subscription_confirmed", Null, 0, Null, {})))
                  ELSE SetBroker(B1)
               /\ UNCHANGED task
    /\ UNCHANGED <<now, uuid, dbVars, sess, fcVars>>

\* the endpoint coroutine of c handles a subscribe frame; the frame may have
\* been queued before the peer went away, and a failed send of a broadcast
\* may have taken c out of the registry in the meantime.  (resp keeps the
\* request: the handler answers with a frame, or with nothing)
Subscribe(c, subscription_type, filters_shop) ==
    /\ c \in DOMAIN db_new
    /\ resp' = [op |-> "subscribe", connection_id |-> c,
                subscription_type |-> subscription_type, filters_shop |-> filters_shop]
    /\ IF subscription_type \notin ValidSubscriptions
       THEN /\ IF WebsocketRouterDatetimeBound
               THEN SetBroker(SendPersonalMessage(Broker, c,
                        Message("subscription_error", Null, 0, Null, {})))
               ELSE UNCHANGED brokerVars
            /\ UNCHANGED task
       ELSE IF c \notin DOMAIN active_connections
       THEN UNCHANGED <<brokerVars, task>>
       ELSE LET B1 == [Broker EXCEPT
                         !.ac = [@ EXCEPT ![c].connection_type = subscription_type,
                                          ![c].filters_shop =
                                              IF filters_shop = "absent" THEN @
                                              ELSE filters_shop],
                         !.subs = [@ EXCEPT ![subscription_type] = @ \cup {c}]]
            IN /\ IF WebsocketRouterDatetimeBound
                  THEN SetBroker(SendPersonalMessage(B1, c,
                           Message("subscription_confirmed", Null, 0, Null, {})))
                  ELSE SetBroker(B1)
               /\ UNCHANGED task
    /\ UNCHANGED <<now, uuid, dbVars, sess, fcVars>>

\* the flush of a commit: the pending MLForecast objects become rows
Flushed(new) == [k \in DOMAIN new |-> [new[k] EXCEPT !.created_at = now]]

\* db.commit() on the session of the endpoint of connection c: the flush
\* inserts every pending MLForecast; created_at takes its column default
SessionCommit(c) ==
    /\ forecasts' = forecasts \o Flushed(db_new[c])
    /\ db_new' = [db_new EXCEPT ![c] = <<>>]

\* handle_chart_data_request; the audit write of the chart query commits
\* the session
WsChartRequest(c, metric_type, time_range, filters_shop) ==
    /\ c \in DOMAIN active_connections
    /\ c \in ws_open
    /\ QueriesLogged < MaxQueries
    /\ LET u == active_connections[c].user_id
           asked == IF filters_shop = "absent" THEN Null ELSE filters_shop
           shop == IF RoleOf(u) = "SHOP_OWNER" /\ ResolveShop(u) # Null
                   THEN ResolveShop(u) ELSE asked
           chart == ChartResponse(metric_type, time_range, "hourly", shop, Null, Null)
       IN /\ resp' = chart
          /\ auditLog' = auditLog \o ChartAudit(metric_type, time_range, shop, u, RoleOf(u))
          /\ SetBroker(SendPersonalMessage(Broker, c,
                 Message("chart_data_response", Null, 0, Null, chart.shops)))
          /\ SessionCommit(c)
    /\ UNCHANGED <<now, uuid, metrics, events, anomalies, shopRows, sess, task>>

\* handle_anomaly_acknowledgment: the row .first() returns for the
\* detection_id is marked and the session committed, whatever the row held
WsAcknowledge(c, detection_id) ==
    /\ c \in DOMAIN active_connections
    /\ c \in ws_open
    /\ LET found == { k \in DOMAIN anomalies :
                        anomalies[k].detection_id = detection_id }
       IN IF found # {}
          THEN \E k \in found :
                 /\ anomalies' = [anomalies EXCEPT
                        ![k].acknowledged = TRUE,
                        ![k].acknowledged_by = active_connections[c].user_id,
                        ![k].acknowledged_at = now]
                 /\ SessionCommit(c)
                 /\ SetBroker(SendPersonalMessage(Broker, c,
                        Message("anomaly_acknowledged", Null, 0, Null, {})))
          ELSE /\ SetBroker(SendPersonalMessage(Broker, c,
                        Message("anomaly_not_found", Null, 0, Null, {})))
               /\ UNCHANGED <<anomalies, fcVars>>
    /\ UNCHANGED <<now, uuid, metrics, events, auditLog, shopRows, sess, resp, task>>

\* the endpoint coroutine ends (WebSocketDisconnect from receive_text, or
\* the NameError of the ping after 30 s of silence): finally disconnect;
\* get_db closes the session, which drops what it had pending
EndpointExit(c) ==
    /\ c \in DOMAIN active_connections \cup ws_open \cup DOMAIN db_new
    /\ SetBroker(Disconnect([Broker EXCEPT !.open = @ \ {c}], c))
    /\ db_new' = [x \in DOMAIN db_new \ {c} |-> db_new[x]]
    /\ UNCHANGED <<now, uuid, dbVars, sess, resp, task, forecasts>>

\* the peer of a connection goes away without a close frame: send_text
\* fails from now on
WsDrop(c) ==
    /\ c \in DOMAIN active_connections
    /\ c \in ws_open
    /\ ws_open' = ws_open \ {c}
    /\ UNCHANGED <<now, uuid, dbVars, sess, resp, active_connections,
                   subscriptions, user_sessions, sent, task, fcVars>>

\* ------------------------------------------------ cleanup_inactive_connections
\* services/websocket_service.py imports datetime only: timedelta(...) on
\* the first line of cleanup_inactive_connections raises NameError
WebsocketServiceTimedeltaBound == FALSE

\* timeout_minutes=30, in ticks
TimeoutTicks == 1

Inactive(c) == active_connections[c].last_activity < now - TimeoutTicks

RECURSIVE SweepAll(_, _)
SweepAll(B, S) ==
    IF S = {} THEN B
    ELSE LET c == CHOOSE x \in S : TRUE
         IN SweepAll(Disconnect(SendPersonalMessage(B, c,
                        Message("connection_timeout", Null, 0, Null, {})), c),
                     S \ {c})

CleanupInactiveConnections ==
    /\ IF WebsocketServiceTimedeltaBound
       THEN /\ SetBroker(SweepAll(Broker, { c \in DOMAIN active_connections : Inactive(c) }))
            /\ resp' = [op |-> "cleanup_inactive_connections", status |-> "returned"]
       ELSE /\ UNCHANGED <<active_connections, ws_open, subscriptions, user_sessions, sent>>
            /\ resp' = [op |-> "cleanup_inactive_connections", status |-> "NameError"]
    /\ UNCHANGED <<now, uuid, dbVars, sess, task, fcVars>>

\* ---------------------------------------------- handle_realtime_event
\* process_realtime_event run to its end on the event loop (it awaits
\* nothing that suspends): the sessions it can commit
IngestOutcomes(e, id) ==
    LET st0 == AfterSubmit(e, id)
    IN IF st0.pc = "detect" THEN AfterDetect(st0, id + 1)
       ELSE UNION { UNION { AfterDetect(AfterDaily(AfterHourly(st0, h), d), id + 1) :
                            d \in DailyExisting(AfterHourly(st0, h)) } :
                    h \in HourlyExisting(st0) }

Ingest(e) ==
    \E st \in IngestOutcomes(e, uuid + 1) :
        /\ metrics' = CommittedMetrics(st)
        /\ events' = CommittedEvents(st)
        /\ anomalies' = CommittedAnomalies(st)
        /\ uuid' = uuid + 1 + Len(st.anoms)

\* POST /analytics/events/realtime
HttpProcessEvent(u, e) ==
    /\ Ingested < MaxHandled
    /\ IF RoleOf(u) # "ADMIN"
       THEN /\ resp' = HttpResult("http_event", 403)
            /\ UNCHANGED <<uuid, metrics, events, anomalies, auditLog>>
       ELSE /\ Ingest(e)
            /\ auditLog' = Append(auditLog,
                  AuditRow(u, RoleOf(u), "process_event", "realtime_event", Null, Null, "success"))
            /\ resp' = HttpResult("http_event", 200)
    /\ UNCHANGED <<now, shopRows, sess, brokerVars, fcVars>>

\* the subscribers a broadcast iterates over: subscriptions[type].copy()
SubscribersCopy(topic) == IF topic \in Topics THEN subscriptions[topic] ELSE {}

\* send_metric_update: the message and its two broadcasts
MetricUpdates(e, id) ==
    << Message("metric_update", "analytics", id, e.shop_id, {e.shop_id} \ {Null}),
       Message("metric_update", "shop_analytics", id, e.shop_id, {e.shop_id} \ {Null}) >>

\* event_processors: the metric whose chart the processor of an event type
\* refreshes, Null without processor
ProcessorMetric(e) ==
    IF e.event_type = "order_created" THEN "orders"
    ELSE IF e.event_type = "payment_completed" THEN "revenue"
    ELSE IF e.event_type = "user_registered" THEN "users"
    ELSE Null

\* send_chart_update for the chart the processor queried in the table M
ChartUpdates(M, e, id) ==
    LET shops == ChartShops(M, ProcessorMetric(e), "1h",
                            IF e.event_type = "user_registered" THEN Null ELSE e.shop_id)
    IN << Message("chart_update", "analytics", id, Null, shops),
          Message("chart_update", "shop_analytics", id, Null, shops) >>

\* send_anomaly_alert for every anomaly of K, rows of the table An, newest
\* first
RECURSIVE AnomalyAlerts(_, _)
AnomalyAlerts(An, K) ==
    IF K = {} THEN <<>>
    ELSE LET k == CHOOSE x \in K : \A y \in K : y <= x
             shops == {An[k].shop_id} \ {Null}
         IN << Message("anomaly_alert", "anomalies", An[k].detection_id, Null, shops),
               Message("anomaly_alert", "analytics", An[k].detection_id, Null, shops) >>
            \o AnomalyAlerts(An, K \ {k})

\* the coroutine of handle_realtime_event once the loop of a broadcast is
\* over: the next broadcast of the message, then the processor of the event
\* type, which reads the tables M and An
AdvanceTask(t, M, An) ==
    IF Len(t.msgs) > 1
    THEN [t EXCEPT !.msgs = Tail(@), !.copy = SubscribersCopy(t.msgs[2].topic)]
    ELSE IF t.phase = "metric" /\ ProcessorMetric(t.event) # Null
    THEN [t EXCEPT !.phase = "chart",
                   !.msgs = ChartUpdates(M, t.event, t.event_id),
                   !.copy = SubscribersCopy("analytics")]
    ELSE IF t.phase = "chart" /\ t.event.event_type = "payment_completed"
    THEN LET alerts == AnomalyAlerts(An, { k \in RecentAnomalies(An, "revenue", t.event.shop_id) :
                                             An[k].severity \in {"high", "critical"} })
         IN IF alerts = <<>> THEN NoTask
            ELSE [t EXCEPT !.phase = "alert", !.msgs = alerts,
                           !.copy = SubscribersCopy("anomalies")]
    ELSE NoTask

\* the loop of broadcast_to_subscription passes a subscriber by when it is
\* not registered or may not see the message
Sendable(c, msg) ==
    /\ c \in DOMAIN active_connections
    /\ CheckAccessPermission(active_connections[c], msg, Null)

\* the coroutine runs without suspending up to its next send_text: it
\* passes by subscribers that are not sendable (K: those of them the
\* iteration has yet to reach), ends broadcasts nobody is left for, and
\* stops at the first sendable subscriber (to), or ends (to = 0)
RECURSIVE NextSends(_, _, _)
NextSends(t, M, An) ==
    IF t.pc = "idle" THEN { [task |-> t, to |-> 0] }
    ELSE LET cand == { c \in t.copy : Sendable(c, Head(t.msgs)) }
         IN IF cand = {} THEN NextSends(AdvanceTask(t, M, An), M, An)
            ELSE { [task |-> [t EXCEPT !.copy = (cand \ {c}) \cup K], to |-> c] :
                   c \in cand, K \in SUBSET (t.copy \ cand) }

RunTask(t, M, An) ==
    \E r \in NextSends(t, M, An) :
        /\ task' = r.task
        /\ IF r.to = 0
           THEN UNCHANGED <<active_connections, ws_open, subscriptions, user_sessions, sent>>
           ELSE SetBroker(SendPersonalMessage(Broker, r.to, Head(r.task.msgs)))

\* handle_realtime_event up to its first send_text
HandleEvent(e) ==
    /\ task.pc = "idle"
    /\ \E st \in IngestOutcomes(e, uuid + 1) :
        /\ metrics' = CommittedMetrics(st)
        /\ events' = CommittedEvents(st)
        /\ anomalies' = CommittedAnomalies(st)
        /\ uuid' = uuid + 1 + Len(st.anoms)
        /\ RunTask([pc |-> "run", event |-> e, event_id |-> uuid + 1, phase |-> "metric",
                    msgs |-> MetricUpdates(e, uuid + 1),
                    copy |-> SubscribersCopy("analytics")],
                   CommittedMetrics(st), CommittedAnomalies(st))
    /\ UNCHANGED <<now, auditLog, shopRows, sess, resp, fcVars>>

\* the events handled since the start are bounded
HandleRealtimeEvent(e) ==
    /\ Ingested < MaxHandled
    /\ HandleEvent(e)

\* a send_text of the broadcast returns and the coroutine runs on to its
\* next send_text, or to its end
TaskResume ==
    /\ task.pc = "run"
    /\ RunTask(task, metrics, anomalies)
    /\ UNCHANGED <<now, uuid, dbVars, sess, resp, fcVars>>

\* ------------------------------------------------------ generate_forecast
TicksPerDay == HoursPerDay * TicksPerHour

\* timedelta(days=30), in ticks
ForecastWindowTicks == 30 * TicksPerDay

\* datetime.max, brought within the horizon of the model: the last tick of
\* the third day after the start.  datetime.utcnow() + timedelta(days=i)
\* raises OverflowError beyond it.
DatetimeMax == StartTick + 3 * TicksPerDay - 1

\* Query(7, ge=1, le=30) of GET /analytics/forecasts, on the same scale:
\* every days_ahead the endpoint lets through stays far below datetime.max
HttpMaxDaysAhead == 2

\* lines 324-342: historical_data
HistoricalData(metric_type, shop_id, category_id, region) ==
    { i \in DOMAIN metrics :
        /\ metrics[i].metric_type = metric_type
        /\ metrics[i].granularity = "daily"
        /\ metrics[i].timestamp >= now - ForecastWindowTicks
        /\ shop_id # Null => metrics[i].shop_id = shop_id
        /\ category_id # Null => metrics[i].category_id = category_id
        /\ region # Null => metrics[i].region = region }

\* line 344: len(historical_data) < 7
InsufficientDataBelowSix(n) == n < 6

InsufficientData(n) == n < 7

\* lines 370-382: the MLForecast of day i; run and days_ahead are no
\* columns, they tell the run that made the object and what it was asked
MLForecastRow(id, run, days_ahead, metric_type, i, shop_id) ==
    [forecast_id |-> id, run |-> run, days_ahead |-> days_ahead,
     metric_type |-> metric_type, forecast_date |-> now + i * TicksPerDay,
     shop_id |-> shop_id, category_id |-> Null, region |-> Null,
     created_at |-> Null]

\* the iterations of the loop of lines 357-390 that end: iteration i raises
\* OverflowError when its forecast_date is beyond datetime.max
LoopReach(days_ahead) ==
    Cardinality({ i \in 1..days_ahead : now + i * TicksPerDay <= DatetimeMax })

\* generate_forecast on a session whose pending objects are new, drawing
\* its ids after id: the pending objects it leaves, whether it committed,
\* the forecast dates it returns and the number of ids it drew.  The
\* except clause returns [] without rollback.
GenerateForecast(new, metric_type, days_ahead, shop_id, id) ==
    LET hist == HistoricalData(metric_type, shop_id, Null, Null)
        k == LoopReach(days_ahead)
        added == [i \in 1..k |->
                    MLForecastRow(id + i, id + 1, days_ahead, metric_type, i, shop_id)]
    IN IF InsufficientData(Cardinality(hist))
       THEN [new |-> new, commit |-> FALSE, forecasts |-> <<>>, drawn |-> 0]
       ELSE IF k < days_ahead
       THEN [new |-> new \o added, commit |-> FALSE, forecasts |-> <<>>, drawn |-> k]
       ELSE [new |-> new \o added, commit |-> TRUE,
             forecasts |-> [i \in 1..k |-> added[i].forecast_date], drawn |-> k]

\* the ids drawn in the run for connections and forecasts
Drawn == uuid - Len(events) - Len(anomalies)

DaysAheadInputs == {2, 3}

\* GET /analytics/forecasts/{metric_type}; the session of the request is
\* new, and the audit write commits what generate_forecast left pending
HttpForecast(u, metric_type, days_ahead, shop_id) ==
    /\ Drawn < MaxConnects + MaxForecastIds
    /\ QueriesLogged < MaxQueries
    /\ IF days_ahead \notin 1..HttpMaxDaysAhead
       THEN /\ resp' = HttpResult("http_forecast", 422)
            /\ UNCHANGED <<uuid, auditLog, forecasts>>
       ELSE IF RoleOf(u) \notin {"ADMIN", "SHOP_OWNER"}
       THEN /\ resp' = HttpResult("http_forecast", 403)
            /\ UNCHANGED <<uuid, auditLog, forecasts>>
       ELSE IF RoleOf(u) = "SHOP_OWNER" /\ ~AnalyticsRouterShopBound
       THEN \* NameError, caught by except Exception: 500
            /\ resp' = HttpResult("http_forecast", 500)
            /\ UNCHANGED <<uuid, auditLog, forecasts>>
       ELSE IF RoleOf(u) = "SHOP_OWNER" /\ ResolveShop(u) = Null
       THEN /\ resp' = HttpResult("http_forecast", 404)
            /\ UNCHANGED <<uuid, auditLog, forecasts>>
       ELSE LET shop == IF RoleOf(u) = "SHOP_OWNER" THEN ResolveShop(u) ELSE shop_id
                r == GenerateForecast(<<>>, metric_type, days_ahead, shop, uuid)
            IN /\ resp' = [op |-> "forecast", status |-> "ok", run |-> uuid + 1,
                           metric_type |-> metric_type, days_ahead |-> days_ahead,
                           shop_id |-> shop, forecasts |-> r.forecasts]
               /\ uuid' = uuid + r.drawn
               /\ forecasts' = forecasts \o Flushed(r.new)
               /\ auditLog' = Append(auditLog,
                     AuditRow(u, RoleOf(u), "view_forecast", metric_type, shop, Null, "success"))
    /\ UNCHANGED <<now, metrics, events, anomalies, shopRows, sess, brokerVars, db_new>>

\* handle_forecast_request: days_ahead is whatever the client sent
WsForecastRequest(c, metric_type, days_ahead, filters_shop) ==
    /\ c \in DOMAIN active_connections
    /\ c \in ws_open
    /\ Drawn < MaxConnects + MaxForecastIds
    /\ LET u == active_connections[c].user_id
           asked == IF filters_shop = "absent" THEN Null ELSE filters_shop
           shop == IF RoleOf(u) = "SHOP_OWNER" /\ ResolveShop(u) # Null
                   THEN ResolveShop(u) ELSE asked
           r == GenerateForecast(db_new[c], metric_type, days_ahead, shop, uuid)
       IN /\ resp' = [op |-> "forecast", status |-> "ok", run |-> uuid + 1,
                      metric_type |-> metric_type, days_ahead |-> days_ahead,
                      shop_id |-> shop, forecasts |-> r.forecasts]
          /\ uuid' = uuid + r.drawn
          /\ forecasts' = IF r.commit THEN forecasts \o Flushed(r.new) ELSE forecasts
          /\ db_new' = [db_new EXCEPT ![c] = IF r.commit THEN <<>> ELSE r.new]
          /\ SetBroker(SendPersonalMessage(Broker, c,
                 Message("forecast_response", Null, 0, Null, {shop} \ {Null})))
    /\ UNCHANGED <<now, metrics, events, anomalies, auditLog, shopRows, sess, task>>

\* ------------------------------------------------------ specifications
\* the query engine: events ingested over HTTP, charts and the overview
\* queried over HTTP
QueryUsers == {"admin", "ownerA", "customer"}

NextQuery ==
    \/ \E u \in QueryUsers, e \in EventInputs : HttpProcessEvent(u, e)
    \/ \E u \in QueryUsers, mt \in QueryMetricInputs, tr \in QueryRangeInputs,
          sh \in {Null, ShopA} : HttpChart(u, mt, tr, "auto", sh)
    \/ \E u \in QueryUsers, tr \in QueryRangeInputs : HttpOverview(u, tr)
    \/ Tick(TRUE)

SpecQuery == Init /\ [][NextQuery]_vars

\* access control on the query paths: shop owners with and without shop
\* query over HTTP and over a WebSocket connection
AccessUsers == {"admin", "ownerA", "ownerNew", "customer"}
AccessEvents == { e \in EventInputs : e.entity_id = 1 /\ e.shop_id = ShopB }

NextAccess ==
    \/ \E e \in AccessEvents : HttpProcessEvent("admin", e)
    \/ \E u \in AccessUsers, sh \in {Null, ShopB} : HttpChart(u, "orders", "1h", "auto", sh)
    \/ \E u \in AccessUsers : HttpOverview(u, "1h")
    \/ \E u \in AccessUsers : Connect(u, "analytics", Null)
    \/ \E c \in DOMAIN active_connections, f \in FilterInputs :
          WsChartRequest(c, "orders", "1h", f)
    \/ \E u \in AccessUsers : CreateShop(u)

SpecAccess == Init /\ [][NextAccess]_vars

\* the subscription broker: connections open and subscribe while events
\* are handled and broadcast on the event loop
BrokerUsers == {"admin", "ownerA"}
BrokerEvents == { e \in EventInputs : e.entity_id \in {1, 3, 6} }

NextBroker ==
    \/ \E u \in BrokerUsers : Connect(u, "analytics", Null)
    \/ \E c \in DOMAIN active_connections, st \in SubscriptionInputs,
          f \in FilterInputs : Subscribe(c, st, f)
    \/ \E e \in BrokerEvents : HandleRealtimeEvent(e)
    \/ TaskResume

SpecBroker == Init /\ [][NextBroker]_vars

\* connections come and go while events are handled and broadcast: peers
\* vanish, endpoints end
NextChurn ==
    \/ \E u \in BrokerUsers, ct \in ConnectionTypeInputs : Connect(u, ct, Null)
    \/ \E c \in DOMAIN active_connections \cup ws_open : EndpointExit(c)
    \/ \E c \in DOMAIN active_connections : WsDrop(c)
    \/ \E e \in BrokerEvents : HandleRealtimeEvent(e)
    \/ TaskResume

SpecChurn == Init /\ [][NextChurn]_vars

\* broadcasts to peers that vanish: sends fail, and only a failed send
\* takes a connection out of the registry
NextDelivery ==
    \/ \E u \in BrokerUsers, ct \in ConnectionTypeInputs : Connect(u, ct, Null)
    \/ \E c \in DOMAIN active_connections : WsDrop(c)
    \/ \E e \in BrokerEvents : HandleRealtimeEvent(e)
    \/ TaskResume

SpecDelivery == Init /\ [][NextDelivery]_vars

\* the registry under every operation that touches it: connections open,
\* subscribe (also with a frame queued before the peer went away), end,
\* lose their peer, are sent broadcasts that fail, and the sweep runs
NextRegistry ==
    \/ Connect("admin", "analytics", Null)
    \/ \E c \in DOMAIN db_new : Subscribe(c, "anomalies", "absent")
    \/ \E c \in DOMAIN db_new : EndpointExit(c)
    \/ \E c \in DOMAIN active_connections : WsDrop(c)
    \/ HandleRealtimeEvent(Event("payment_completed", 3, ShopA, 100))
    \/ TaskResume
    \/ CleanupInactiveConnections

SpecRegistry == Init /\ [][NextRegistry]_vars

\* the idle sweep: connections open, go silent, are swept
NextSweep ==
    \/ \E u \in BrokerUsers, ct \in ConnectionTypeInputs : Connect(u, ct, Null)
    \/ \E c \in DOMAIN active_connections, st \in SubscriptionInputs :
          Subscribe(c, st, "absent")
    \/ \E c \in DOMAIN active_connections \cup ws_open : EndpointExit(c)
    \/ \E c \in DOMAIN active_connections : WsDrop(c)
    \/ CleanupInactiveConnections
    \/ Tick(TRUE)

SpecSweep == Init /\ [][NextSweep]_vars

\* ------------------------------------------------- the store after a while
\* the analytics_metrics row the first event of a bucket inserted at tick t,
\* with the value and count later events of the bucket brought it to
MetricRow(metric_type, granularity, t, shop_id, value, count) ==
    [metric_type |-> metric_type, granularity |-> granularity,
     date_key |-> DateKey(t),
     hour_key |-> IF granularity = "hourly" THEN HourKey(t) ELSE Null,
     shop_id |-> shop_id, category_id |-> Null, region |-> "unknown",
     value |-> value, count |-> count, timestamp |-> t]

\* the realtime_events row of the event e ingested at tick t
EventRow(id, e, t) ==
    [event_id |-> id, event_type |-> e.event_type, data |-> e,
     processed |-> TRUE, timestamp |-> t]

PastPayment == Event("payment_completed", 3, ShopA, 100)

\* the tables after one payment of 100 of shop A was ingested on each of
\* the n days before the start, at the hour of the start: every event
\* inserted the row of its hour and the row of its day
DailyHistoryMetrics(n) ==
    [k \in 1..(2 * n) |->
        LET t == StartTick - (n - (k - 1) \div 2) * TicksPerDay
        IN MetricRow("revenue", IF k % 2 = 1 THEN "hourly" ELSE "daily", t, ShopA, 100, 1)]

DailyHistoryEvents(n) ==
    [k \in 1..n |-> EventRow(k, PastPayment, StartTick - (n - k + 1) * TicksPerDay)]

HistoryDays == {6, 7}

\* the tables after one payment of 100 of shop A was ingested in each of
\* the 9 hours before the hour of the start: the first one inserted the
\* row of its hour and the row of the day, the others the row of their
\* hour, and added to the row of the day
BaselineHours == 9

BaselineTick(k) == StartTick - (BaselineHours - k + 1) * TicksPerHour

BaselineMetrics ==
    << MetricRow("revenue", "hourly", BaselineTick(1), ShopA, 100, 1),
       MetricRow("revenue", "daily", BaselineTick(1), ShopA,
                 100 * BaselineHours, BaselineHours) >>
    \o [k \in 1..(BaselineHours - 1) |->
          MetricRow("revenue", "hourly", BaselineTick(k + 1), ShopA, 100, 1)]

BaselineEvents ==
    [k \in 1..BaselineHours |-> EventRow(k, PastPayment, BaselineTick(k))]

\* the program after the 9 hours of the baseline
InitBaseline ==
    /\ now = StartTick
    /\ uuid = BaselineHours
    /\ metrics = BaselineMetrics
    /\ events = BaselineEvents
    /\ anomalies = <<>>
    /\ auditLog = <<>>
    /\ shopRows = Shops
    /\ sess = [s \in Sessions |-> IdleSession]
    /\ resp = NoResponse
    /\ active_connections = <<>>
    /\ ws_open = {}
    /\ subscriptions = [t \in Topics |-> {}]
    /\ user_sessions = [u \in Users |-> {}]
    /\ sent = {}
    /\ task = NoTask
    /\ forecasts = <<>>
    /\ db_new = <<>>

\* the events submitted on top of the baseline
DetectEvents ==
    { PastPayment,
      Event("payment_completed", 7, ShopA, 50),
      Event("payment_completed", 8, ShopB, 70),
      Event("payment_success", 9, ShopA, 100),
      Event("page_viewed", 6, ShopA, 0) }

\* ingestion on one event loop on top of the baseline, where the anomaly
\* check has the points it needs
NextDetect ==
    \/ \E s \in Sessions, e \in DetectEvents : Submit(s, e, TRUE)
    \/ \E s \in Sessions : UpsertHourly(s)
    \/ \E s \in Sessions : UpsertDaily(s)
    \/ \E s \in Sessions : DetectAnomalies(s)
    \/ \E s \in Sessions : Commit(s)
    \/ Tick(TRUE)

SpecDetect == InitBaseline /\ [][NextDetect]_vars

\* the tables after two more payments of shop A, of 100 and of 50, were
\* ingested at the start on top of the baseline: the first inserted the
\* row of the hour, the second brought it to 150 and, the detector
\* flagging it among ten rows, added an AnomalyDetection
LatePayment == Event("payment_completed", 7, ShopA, 50)

FlaggedMetrics ==
    [BaselineMetrics EXCEPT ![2].value = @ + 150, ![2].count = @ + 2]
    \o << MetricRow("revenue", "hourly", StartTick, ShopA, 150, 2) >>

FlaggedEvents ==
    BaselineEvents \o << EventRow(BaselineHours + 1, PastPayment, StartTick),
                         EventRow(BaselineHours + 2, LatePayment, StartTick) >>

FlaggedId == BaselineHours + 3

FlaggedAnomalies ==
    << [detection_id |-> FlaggedId, metric_type |-> "revenue",
        actual_value |-> 150, expected_sum |-> 100 * BaselineHours,
        expected_n |-> BaselineHours,
        severity |-> Severity(150, 100 * BaselineHours, BaselineHours),
        shop_id |-> ShopA, category_id |-> Null, region |-> Null,
        acknowledged |-> FALSE, acknowledged_by |-> Null,
        acknowledged_at |-> Null, timestamp |-> StartTick] >>

\* the program with one anomaly on record
InitFlagged ==
    /\ now = StartTick
    /\ uuid = FlaggedId
    /\ metrics = FlaggedMetrics
    /\ events = FlaggedEvents
    /\ anomalies = FlaggedAnomalies
    /\ auditLog = <<>>
    /\ shopRows = Shops
    /\ sess = [s \in Sessions |-> IdleSession]
    /\ resp = NoResponse
    /\ active_connections = <<>>
    /\ ws_open = {}
    /\ subscriptions = [t \in Topics |-> {}]
    /\ user_sessions = [u \in Users |-> {}]
    /\ sent = {}
    /\ task = NoTask
    /\ forecasts = <<>>
    /\ db_new = <<>>

\* data.get("detection_id") of the acknowledgments: the one on record and
\* one that is not
DetectionIdInputs == {FlaggedId, 0}

\* operators acknowledging over their WebSocket connections
NextAck ==
    \/ \E u \in {"admin", "ownerA"} : Connect(u, "analytics", Null)
    \/ \E c \in DOMAIN active_connections, d \in DetectionIdInputs : WsAcknowledge(c, d)
    \/ \E c \in DOMAIN active_connections \cup ws_open : EndpointExit(c)
    \/ Tick(TRUE)

SpecAck == InitFlagged /\ [][NextAck]_vars

\* charts asked over HTTP on top of the baseline, with and without a
\* granularity
NextChart ==
    \/ \E u \in QueryUsers, tr \in {"1h", "7d", "30d", "90d"},
          g \in {"auto", "hourly", "daily"},
          sh \in {Null, ShopA, ShopB} : HttpChart(u, "revenue", tr, g, sh)
    \/ Tick(TRUE)

SpecChart == InitBaseline /\ [][NextChart]_vars

\* event_data that carries the time the event occurred at
EventAt(e, t) == e @@ ("occurred_at" :> t)

\* events submitted in the hour they occurred in, an hour later and a day
\* later
LateEvents ==
    { EventAt(Event("order_created", 1, ShopA, 0), StartTick),
      EventAt(Event("order_created", 2, ShopA, 0), StartTick - TicksPerHour),
      EventAt(Event("payment_completed", 3, ShopA, 5000), StartTick - TicksPerDay),
      EventAt(Event("user_registered", 5, Null, 0), StartTick - TicksPerHour) }

NextLate ==
    \/ \E s \in Sessions, e \in LateEvents : Submit(s, e, TRUE)
    \/ \E s \in Sessions : UpsertHourly(s)
    \/ \E s \in Sessions : UpsertDaily(s)
    \/ \E s \in Sessions : DetectAnomalies(s)
    \/ \E s \in Sessions : Commit(s)
    \/ Tick(TRUE)

SpecLate == Init /\ [][NextLate]_vars

\* payments handled by the broker with an anomaly on record: one that
\* brings the hour to 200, one that takes it back to 105, and an order
AlertEvents ==
    { LatePayment, Event("payment_completed", 4, ShopA, -45),
      Event("order_created", 1, ShopA, 0) }

\* an event handled after the flagged hour was recorded
HandleAlertEvent(e) ==
    /\ Len(events) - Len(FlaggedEvents) < MaxHandled
    /\ HandleEvent(e)

NextAlert ==
    \/ \E u \in BrokerUsers : Connect(u, "analytics", Null)
    \/ \E c \in DOMAIN active_connections : Subscribe(c, "anomalies", "absent")
    \/ \E c \in DOMAIN active_connections : WsAcknowledge(c, FlaggedId)
    \/ \E e \in AlertEvents : HandleAlertEvent(e)
    \/ TaskResume

SpecAlert == InitFlagged /\ [][NextAlert]_vars

\* ------------------------------------------- handle_realtime_event fails
\* (the ids drawn that are neither those of committed rows nor those of
\* connections are those of the events whose ingestion failed, while no
\* endpoint has ended)
\* the handler that goes on to its broadcasts after the failure
HandleEventFailsQuietly(e) ==
    /\ task.pc = "idle"
    /\ uuid - Len(events) - Len(anomalies) - Cardinality(DOMAIN db_new) < MaxFaults
    /\ uuid' = uuid + 1
    /\ resp' = [op |-> "handle_realtime_event", status |-> "raised", event_id |-> uuid + 1]
    /\ RunTask([pc |-> "run", event |-> e, event_id |-> uuid + 1, phase |-> "metric",
                msgs |-> MetricUpdates(e, uuid + 1),
                copy |-> SubscribersCopy("analytics")],
               metrics, anomalies)
    /\ UNCHANGED <<now, dbVars, sess, fcVars>>

\* process_realtime_event raises (a statement of the ingestion meets a
\* database error): it rolls back, which drops the pending event and rows,
\* and raises again; handle_realtime_event logs and raises again (lines
\* 304-306) before send_metric_update and the processor are reached
HandleEventFails(e) ==
    /\ task.pc = "idle"
    /\ uuid - Len(events) - Len(anomalies) - Cardinality(DOMAIN db_new) < MaxFaults
    /\ uuid' = uuid + 1
    /\ resp' = [op |-> "handle_realtime_event", status |-> "raised", event_id |-> uuid + 1]
    /\ UNCHANGED <<now, dbVars, sess, brokerVars, fcVars>>

NextCommitted ==
    \/ \E u \in BrokerUsers : Connect(u, "analytics", Null)
    \/ \E e \in BrokerEvents : HandleRealtimeEvent(e)
    \/ \E e \in BrokerEvents : HandleEventFails(e)
    \/ TaskResume

SpecCommitted == Init /\ [][NextCommitted]_vars

\* -------------------------------------------------- failing statements
\* the calls of process_realtime_event that have ended in the except
\* clause: each one drew its event id and stored nothing
Aborted == Drawn - Cardinality({ t \in Sessions : sess[t].pc # "idle" })

\* a statement of the call of session s raises (the SELECT of an upsert or
\* the commit meets a database error): lines 225-228 log, roll the session
\* back, which drops the pending event, rows and changes, and raise again
PersistenceFails(s) ==
    /\ sess[s].pc \in {"hourly", "daily", "commit"}
    /\ Aborted < MaxFaults
    /\ sess' = [sess EXCEPT ![s] = IdleSession]
    /\ resp' = [op |-> "process_realtime_event", status |-> "raised",
                event_id |-> sess[s].event_id]
    /\ UNCHANGED <<now, uuid, dbVars, brokerVars, fcVars>>

\* ingestion on one event loop with a database that may fail
NextFault ==
    \/ \E s \in Sessions, e \in EventInputs : Submit(s, e, TRUE)
    \/ \E s \in Sessions : UpsertHourly(s)
    \/ \E s \in Sessions : UpsertDaily(s)
    \/ \E s \in Sessions : DetectAnomalies(s)
    \/ \E s \in Sessions : Commit(s)
    \/ \E s \in Sessions : PersistenceFails(s)
    \/ Tick(TRUE)

SpecFault == Init /\ [][NextFault]_vars

\* the program after HistoryDays days of one payment a day
InitForecast ==
    /\ now = StartTick
    /\ \E n \in HistoryDays :
          /\ uuid = n
          /\ metrics = DailyHistoryMetrics(n)
          /\ events = DailyHistoryEvents(n)
    /\ anomalies = <<>>
    /\ auditLog = <<>>
    /\ shopRows = Shops
    /\ sess = [s \in Sessions |-> IdleSession]
    /\ resp = NoResponse
    /\ active_connections = <<>>
    /\ ws_open = {}
    /\ subscriptions = [t \in Topics |-> {}]
    /\ user_sessions = [u \in Users |-> {}]
    /\ sent = {}
    /\ task = NoTask
    /\ forecasts = <<>>
    /\ db_new = <<>>

\* the forecaster: forecasts asked for over HTTP and over WebSocket
\* connections
NextForecast ==
    \/ \E u \in QueryUsers, d \in DaysAheadInputs, sh \in {Null, ShopB} :
          HttpForecast(u, "revenue", d, sh)
    \/ \E u \in BrokerUsers : Connect(u, "analytics", Null)
    \/ \E c \in DOMAIN active_connections, d \in DaysAheadInputs :
          WsForecastRequest(c, "revenue", d, "absent")

SpecForecast == InitForecast /\ [][NextForecast]_vars

\* the session of a WebSocket endpoint over its life: forecasts asked for,
\* the commit of the audit write of a chart request, the close at the end
NextWsSession ==
    \/ Connect("admin", "analytics", Null)
    \/ \E c \in DOMAIN active_connections, d \in DaysAheadInputs, f \in FilterInputs :
          WsForecastRequest(c, "revenue", d, f)
    \/ \E c \in DOMAIN active_connections : WsChartRequest(c, "revenue", "1h", "absent")
    \/ \E c \in DOMAIN active_connections \cup ws_open : EndpointExit(c)
    \/ Tick(TRUE)

SpecWsSession == InitForecast /\ [][NextWsSession]_vars

\* the event types the metric derivation recognizes
DerivedEventTypes == {"order_created", "payment_completed", "user_registered"}

\* the rows of granularity g that hold the bucket of tick t for the
\* dimensions of the delta d
BucketOf(d, g, t) ==
    { i \in DOMAIN metrics :
        /\ metrics[i].metric_type = d.metric_type
        /\ metrics[i].granularity = g
        /\ BucketKey(metrics[i]) = (IF g = "daily" THEN DateKey(t) ELSE HourKey(t))
        /\ metrics[i].shop_id = d.shop_id
        /\ metrics[i].category_id = d.category_id
        /\ metrics[i].region = d.region }

\* C25: the delta of a recognized event is added to the hourly and the
\* daily bucket that contain the time the event occurred at, also when it
\* is processed in a later hour or on a later day: every stored event has
\* a MetricPoint for the hour and one for the day it occurred in
C25_BucketsOfOccurredAt ==
    \A k \in DOMAIN events :
        (events[k].processed /\ events[k].event_type \in DerivedEventTypes)
        => /\ BucketOf(MetricDelta(events[k].data), "hourly", events[k].data.occurred_at) # {}
           /\ BucketOf(MetricDelta(events[k].data), "daily", events[k].data.occurred_at) # {}

\* ------------------------------------------------------ detector: claims
\* the call of session s commits in this step
Commits(s) == sess[s].pc = "commit" /\ sess'[s].pc = "idle"

\* the event of session s is the last stored one, marked processed
StoredProcessed(s) ==
    /\ Len(events') = Len(events) + 1
    /\ events'[Len(events')].event_id = sess[s].event_id
    /\ events'[Len(events')].data = sess[s].data
    /\ events'[Len(events')].processed

\* C13: the call of an event whose event_type is not a recognized one
\* ends with the event stored as processed, and creates or changes no
\* MetricPoint and no AnomalyRecord
C13_UnknownTypeOnlyStored ==
    [][ \A s \in Sessions :
          (Commits(s) /\ sess[s].data.event_type \notin DerivedEventTypes)
          => /\ StoredProcessed(s)
             /\ metrics' = metrics
             /\ anomalies' = anomalies ]_vars

\* the hourly rows of the bucket and dimensions of the event of session st
BucketRows(M, st) ==
    { i \in DOMAIN M :
        /\ M[i].metric_type = MetricDelta(st.data).metric_type
        /\ M[i].granularity = "hourly"
        /\ M[i].hour_key = st.hour_key
        /\ M[i].shop_id = MetricDelta(st.data).shop_id
        /\ M[i].category_id = MetricDelta(st.data).category_id
        /\ M[i].region = MetricDelta(st.data).region }

RECURSIVE SumValues(_, _)
SumValues(M, I) ==
    IF I = {} THEN 0
    ELSE LET i == CHOOSE x \in I : TRUE IN M[i].value + SumValues(M, I \ {i})

\* C14: a failure inside the anomaly check never blocks the event: the
\* call goes on to its commit with the changes it has made, and its commit
\* stores the event as processed and adds the delta of the event to its
\* hourly bucket
C14_DetectionFailureNeverBlocks ==
    [][ \A s \in Sessions :
          /\ (sess[s].pc = "detect" /\ sess'[s].detect_error)
             => /\ sess'[s].pc = "commit"
                /\ sess'[s].event_id = sess[s].event_id
                /\ sess'[s].ins = sess[s].ins
                /\ sess'[s].upd = sess[s].upd
                /\ sess'[s].anoms = sess[s].anoms
          /\ (Commits(s) /\ sess[s].detect_error)
             => /\ StoredProcessed(s)
                /\ SumValues(metrics', BucketRows(metrics', sess[s]))
                     = SumValues(metrics, BucketRows(metrics, sess[s]))
                       + MetricDelta(sess[s].data).value ]_vars

\* C14 witness: the anomaly check of a payment has failed with ten points
\* at hand, and the call stands before its commit with the event and both
\* bucket changes intact
C14_Witness ==
    \E s \in Sessions :
        /\ sess[s].pc = "commit"
        /\ sess[s].detect_error
        /\ sess[s].data.event_type = "payment_completed"
        /\ Cardinality(RecentMetrics("revenue")) >= MinAnomalyPoints
        /\ Len(sess[s].ins) + Len(sess[s].upd) = 2
        /\ sess[s].anoms = <<>>

\* severity by the thresholds >= 0.5, >= 0.3, >= 0.15 of the relative
\* deviation |a - sum/n| / (sum/n), in exact arithmetic
SeverityAtLeast(a, sum, n) ==
    IF 2 * Abs(n * a - sum) >= sum THEN "critical"
    ELSE IF 10 * Abs(n * a - sum) >= 3 * sum THEN "high"
    ELSE IF 100 * Abs(n * a - sum) >= 15 * sum THEN "medium"
    ELSE "low"

\* C16: the severity of every AnomalyRecord with a positive expected value
\* is critical from a relative deviation of 0.5, high from 0.3, medium from
\* 0.15, and low below, the thresholds themselves included
C16_SeverityThresholds ==
    \A k \in DOMAIN anomalies :
        anomalies[k].expected_sum > 0 =>
            anomalies[k].severity = SeverityAtLeast(anomalies[k].actual_value,
                                                    anomalies[k].expected_sum,
                                                    anomalies[k].expected_n)

\* the hourly rows of the last 24 hours with the metric type and the
\* dimensions of the event of session st
KeyRows(st) ==
    { i \in RecentMetrics(GetMetricTypeFromEvent(st.data)) :
        /\ metrics[i].shop_id = st.data.shop_id
        /\ metrics[i].category_id = st.data.category_id
        /\ metrics[i].region = RegionOf(st.data) }

\* the anomaly check of a recognized event of session s adds an
\* AnomalyRecord in this step
Detects(s) ==
    /\ sess[s].pc = "detect"
    /\ sess[s].data.event_type \in DerivedEventTypes
    /\ Len(sess'[s].anoms) > Len(sess[s].anoms)

\* C17: the anomaly check creates no AnomalyRecord when fewer than 10
\* hourly MetricPoints exist for the key of the event, the points the call
\* itself has inserted counted in
C17_MinimumPoints ==
    [][ \A s \in Sessions :
          Detects(s) =>
              Cardinality(KeyRows(sess[s])) + Len(sess[s].ins) >= MinAnomalyPoints ]_vars

\* C18: the anomaly check looks only at the MetricPoints of the key of
\* the event: the point it evaluates is the hourly bucket the event has
\* just updated, and the expected value is the mean of the other points
\* of the same key
C18_SameKeyOnly ==
    [][ \A s \in Sessions :
          Detects(s) =>
              LET a == sess'[s].anoms[Len(sess'[s].anoms)]
                  bucket == { i \in KeyRows(sess[s]) :
                                metrics[i].hour_key = sess[s].hour_key }
              IN  /\ bucket # {}
                  /\ a.actual_value = SumSeen(sess[s], bucket)
                  /\ a.expected_sum = SumSeen(sess[s], KeyRows(sess[s]) \ bucket)
                  /\ a.expected_n = Cardinality(KeyRows(sess[s]) \ bucket) ]_vars

\* the call of session s ends in this step with the failure raised
Raises(s) ==
    /\ sess[s].pc # "idle"
    /\ sess'[s].pc = "idle"
    /\ resp'.op = "process_realtime_event"
    /\ resp'.status = "raised"
    /\ resp'.event_id = sess[s].event_id

\* C15: a persistence failure during ingestion rolls the whole event back
\* (no MetricPoint and no AnomalyRecord changes), reaches the caller, and
\* leaves the RawEvent stored as unprocessed, where a retry finds it
C15_FailureKeepsRawEvent ==
    [][ \A s \in Sessions :
          Raises(s) =>
              /\ metrics' = metrics
              /\ anomalies' = anomalies
              /\ \E k \in DOMAIN events' :
                    /\ events'[k].event_id = sess[s].event_id
                    /\ ~events'[k].processed ]_vars

\* C19: acknowledging is idempotent: once an AnomalyRecord is
\* acknowledged, no later acknowledgment, by the same or another actor,
\* changes its acknowledged, acknowledged_by or acknowledged_at
C19_AcknowledgeIdempotent ==
    [][ \A k \in DOMAIN anomalies :
          anomalies[k].acknowledged =>
              /\ anomalies'[k].acknowledged
              /\ anomalies'[k].acknowledged_by = anomalies[k].acknowledged_by
              /\ anomalies'[k].acknowledged_at = anomalies[k].acknowledged_at ]_vars

\* ---------------------------------------------------- forecaster: claims
\* the step is a call of generate_forecast that has returned
ForecastCallStep ==
    /\ resp'.op = "forecast"
    /\ now' = now
    /\ DOMAIN db_new' = DOMAIN db_new

\* C11: a call of generate_forecast that finds fewer than 7 daily
\* MetricPoints of the last 30 days for the metric type and dimensions it
\* was given returns the empty list, raises nothing, and neither persists
\* a ForecastPoint nor leaves one pending in its session
C11_ColdStartEmpty ==
    [][ ( /\ ForecastCallStep
          /\ Cardinality(HistoricalData(resp'.metric_type, resp'.shop_id, Null, Null)) < 7 )
        => /\ resp'.forecasts = <<>>
           /\ resp'.status = "ok"
           /\ forecasts' = forecasts
           /\ db_new' = db_new ]_vars

\* C11 witness: a forecast was asked for a key with six daily points, one
\* short of seven, and came back empty
C11_Witness ==
    /\ resp.op = "forecast"
    /\ Cardinality(HistoricalData(resp.metric_type, resp.shop_id, Null, Null)) = 6
    /\ resp.forecasts = <<>>
    /\ forecasts = <<>>

\* the persisted ForecastPoints of the run of row f
RunRows(f) == { j \in DOMAIN forecasts : forecasts[j].run = f.run }

\* C20: forecast persistence is all-or-nothing per run: whatever became
\* of a run and whatever the session did afterwards, the persisted
\* ForecastPoints of the run are all its days_ahead points or none
C20_ForecastAllOrNothing ==
    \A k \in DOMAIN forecasts :
        Cardinality(RunRows(forecasts[k])) = forecasts[k].days_ahead

\* the step is a chart request that was answered
ChartCallStep ==
    /\ resp'.op = "chart"
    /\ now' = now
    /\ Len(auditLog') = Len(auditLog) + 1

\* C21: the latest forecast run wins at read time: the forecast a chart
\* request reads holds only ForecastPoints that lie ahead, of the metric
\* type and dimensions asked for, and of the most recent run for them
C21_LatestRunWins ==
    [][ ChartCallStep =>
          LET read == GetForecastData(resp'.metric_type, resp'.shop_id, Null, Null)
          IN \A k \in DOMAIN read :
               /\ forecasts[read[k]].forecast_date >= now
               /\ forecasts[read[k]].metric_type = resp'.metric_type
               /\ forecasts[read[k]].shop_id = resp'.shop_id
               /\ \A j \in DOMAIN forecasts :
                     ( /\ forecasts[j].metric_type = resp'.metric_type
                       /\ forecasts[j].shop_id = resp'.shop_id )
                     => forecasts[j].run <= forecasts[read[k]].run ]_vars

\* ------------------------------------------------------ queries: claims
\* the granularity a chart request is to use by its time range and the
\* granularity the caller gave
GranularityFor(time_range, asked) ==
    IF asked # "auto" THEN asked
    ELSE IF time_range \in {"1h", "24h"} THEN "hourly" ELSE "daily"

\* C22: a chart request uses hourly granularity for the ranges 1h and 24h
\* and daily granularity for 7d, 30d and 90d when the caller gives none,
\* and the granularity the caller gives otherwise: the response reports
\* it, and its data are the MetricPoints of that granularity
C22_GranularityOverride ==
    [][ (now' = now /\ resp'.op = "chart") =>
          LET g == GranularityFor(resp'.time_range, resp'.asked)
          IN /\ resp'.granularity = g
             /\ Len(resp'.data) =
                  Cardinality({ i \in ChartRowsAnyGranularity(metrics, resp'.metric_type,
                                       resp'.time_range, g, resp'.shop_id, Null, Null) :
                                  metrics[i].granularity = g }) ]_vars

\* C12: every chart request appends exactly one AuditEntry, whether it is
\* answered with the chart, fails or is rejected (actor without analytics
\* access, invalid metric type)
C12_OneAuditPerChartCall ==
    [][ (now' = now /\ resp'.op \in {"http_chart", "chart"})
          => Len(auditLog') = Len(auditLog) + 1 ]_vars

\* ------------------------------------------------------ broker: claims
BroadcastTypes == {"metric_update", "chart_update", "anomaly_alert", "forecast_update"}

\* C6: a connection of a shop owner is never sent a metric_update,
\* chart_update, anomaly_alert or forecast_update that carries figures of a
\* shop other than the owner's
C6_NoForeignShopData ==
    \A f \in sent :
        (f.type \in BroadcastTypes /\ RoleOf(f.user) = "SHOP_OWNER")
            => f.shops \subseteq {ShopOfOwner(f.user)}

\* the subscribers of the broadcast in progress that a step passes by or
\* leaves behind without a send
PassedBy ==
    IF task'.pc = "run" /\ task'.msgs = task.msgs
    THEN task.copy \ (task'.copy \cup { f.to : f \in sent' \ sent })
    ELSE task.copy

\* the connection is an admin's or that of the owner of the shop
InScope(c, shop) ==
    \/ active_connections[c].user_role = "ADMIN"
    \/ /\ active_connections[c].user_role = "SHOP_OWNER"
       /\ ShopOfOwner(active_connections[c].user_id) = shop

\* C7: the broadcast of a message scoped to a shop reaches exactly the
\* subscribers that are platform-wide or are bound to that shop: it sends
\* the metric_update of a shop to admins and to the owner of the shop only,
\* and it passes by no registered subscriber that is one of those
C7_BroadcastExactlyScoped ==
    [][ /\ \A f \in sent' \ sent :
              (f.type = "metric_update" /\ f.shop_id # Null)
                  => \/ RoleOf(f.user) = "ADMIN"
                     \/ RoleOf(f.user) = "SHOP_OWNER" /\ ShopOfOwner(f.user) = f.shop_id
        /\ ( /\ task.pc = "run"
             /\ Head(task.msgs).type = "metric_update"
             /\ Head(task.msgs).shop_id # Null )
           => \A c \in PassedBy \cap DOMAIN active_connections' :
                  ~InScope(c, Head(task.msgs).shop_id) ]_vars

\* C23: delivery is best-effort per recipient: a step of a broadcast in
\* which the send to a recipient fails takes that connection out of the
\* registry, of every subscriber set and of the sessions of its user, the
\* broadcast goes on, and it passes by no subscriber that is registered
\* and may see the message
C23_BestEffortDelivery ==
    [][ (task.pc = "run" /\ task' # task) =>
          /\ \A c \in DOMAIN active_connections \ DOMAIN active_connections' :
                /\ c \notin ws_open
                /\ \A t \in Topics : c \notin subscriptions'[t]
                /\ \A u \in Users : c \notin user_sessions'[u]
                /\ \A d \in DOMAIN active_connections \ {c} :
                      d \in DOMAIN active_connections'
          /\ \A d \in PassedBy \cap DOMAIN active_connections' :
                ~CheckAccessPermission(active_connections'[d], Head(task.msgs), Null) ]_vars

\* the connection was sent the welcome frame
Welcomed(c) == \E f \in sent : f.to = c /\ f.type = "connection_established"

\* C23 witness: in the first broadcast of an event the send to one
\* subscriber failed and removed it, and another subscriber was sent the
\* message
C23_Witness ==
    \E c, d \in 1..uuid :
        /\ c # d
        /\ Welcomed(c)
        /\ c \notin DOMAIN active_connections
        /\ \A t \in Topics : c \notin subscriptions[t]
        /\ ~\E f \in sent : f.to = c /\ f.type = "metric_update"
        /\ d \in DOMAIN active_connections
        /\ \E f \in sent : f.to = d /\ f.type = "metric_update" /\ f.topic = "analytics"

\* the step is a subscribe request of a registered connection
SubscribeStep ==
    /\ resp'.op = "subscribe"
    /\ resp' # resp
    /\ resp'.connection_id \in DOMAIN active_connections

\* C24: a connection may hold several subscriptions: a subscribe request
\* for one of the topics analytics, anomalies, forecasts, shop_analytics
\* keeps the connection in every subscriber set it was in and puts it into
\* the subscriber set of the topic asked for, where the broadcasts on that
\* topic find it
C24_SeveralSubscriptions ==
    [][ (SubscribeStep /\ resp'.subscription_type \in Topics) =>
          /\ \A t \in Topics :
                resp'.connection_id \in subscriptions[t]
                    => resp'.connection_id \in subscriptions'[t]
          /\ resp'.connection_id \in subscriptions'[resp'.subscription_type] ]_vars

\* the connection was sent the metric_update of the event
Updated(c, event_id) ==
    \E f \in sent : f.to = c /\ f.type = "metric_update" /\ f.event_id = event_id

\* the connection was sent an anomaly_alert for the record
Alerted(c, detection_id) ==
    \E f \in sent : f.to = c /\ f.type = "anomaly_alert" /\ f.event_id = detection_id

\* C26: whenever the ingestion of an event creates an AnomalyRecord, an
\* anomaly alert for the record is broadcast: once the broadcasts of the
\* event are over, every admin connection that was sent the metric_update
\* of the event and is still open and subscribed has been sent the alert
\* for each record the event created (the record drew its id right after
\* the event)
C26_AlertForEveryRecord ==
    task.pc = "idle" =>
        \A k \in DOMAIN anomalies :
            \A c \in DOMAIN active_connections \cap ws_open :
                ( /\ active_connections[c].user_role = "ADMIN"
                  /\ c \in subscriptions["analytics"]
                  /\ Updated(c, anomalies[k].detection_id - 1) )
                => Alerted(c, anomalies[k].detection_id)

\* the anomaly_alert frames a connection was sent for a record
AlertFrames(F, c, detection_id) ==
    { f \in F : f.to = c /\ f.type = "anomaly_alert" /\ f.event_id = detection_id }

\* C29: a connection is sent at most one anomaly_alert for an
\* AnomalyRecord, and no anomaly_alert for a record that was acknowledged
\* before the send
C29_AlertedAtMostOnce ==
    [][ /\ \A c \in DOMAIN active_connections' :
              \A k \in DOMAIN anomalies' :
                  Cardinality(AlertFrames(sent', c, anomalies'[k].detection_id)) <= 1
        /\ \A f \in sent' \ sent :
              f.type = "anomaly_alert" =>
                  \A k \in DOMAIN anomalies :
                      anomalies[k].detection_id = f.event_id => ~anomalies[k].acknowledged ]_vars

\* C27: after any interleaving of connect, subscribe, disconnect, broadcast
\* (with failing sends) and sweep, every connection id in a topic's
\* subscriber set or in a user's session set is a key of active_connections,
\* and a connection that was removed from the registry is in no subscriber
\* set again
C27_RegistryConsistent ==
    /\ \A t \in Topics : subscriptions[t] \subseteq DOMAIN active_connections
    /\ \A u \in Users : user_sessions[u] \subseteq DOMAIN active_connections
    /\ \A c \in 1..uuid :
          c \notin DOMAIN active_connections => \A t \in Topics : c \notin subscriptions[t]

\* a subscribe frame was handled for a connection a failed send had taken
\* out of the registry, while other connections are subscribed
C27_Witness ==
    /\ resp.op = "subscribe"
    /\ resp.subscription_type \in ValidSubscriptions
    /\ resp.connection_id \in DOMAIN db_new
    /\ resp.connection_id \notin DOMAIN active_connections
    /\ subscriptions["anomalies"] # {}

\* C28: the shop bound to the connection of a shop owner is fixed at connect
\* time: a subscribe request, whatever its filters, leaves the shop_id of
\* the connection's filters as it was
C28_ScopeFixedAtConnect ==
    [][ \A c \in DOMAIN active_connections \cap DOMAIN active_connections' :
            (SubscribeStep /\ resp'.connection_id = c
                /\ active_connections[c].user_role = "SHOP_OWNER")
            => active_connections'[c].filters_shop = active_connections[c].filters_shop ]_vars

\* the committed realtime_events rows of an event id
CommittedRows(event_id) ==
    { k \in DOMAIN events : events[k].event_id = event_id /\ events[k].processed }

\* C30: updates are broadcast only for committed events: every
\* metric_update or chart_update that was sent names an event whose
\* realtime_events row is committed as processed, with the rows of the
\* buckets its delta went to, and no frame at all names an event whose
\* ingestion failed
C30_OnlyCommittedBroadcast ==
    /\ \A f \in sent :
          f.type \in {"metric_update", "chart_update"} =>
              /\ CommittedRows(f.event_id) # {}
              /\ \A k \in CommittedRows(f.event_id) :
                    events[k].event_type \in DerivedEventTypes =>
                        /\ BucketOf(MetricDelta(events[k].data), "hourly", events[k].timestamp) # {}
                        /\ BucketOf(MetricDelta(events[k].data), "daily", events[k].timestamp) # {}
    /\ (resp.op = "handle_realtime_event" /\ resp.status = "raised") =>
          /\ CommittedRows(resp.event_id) = {}
          /\ \A f \in sent : f.event_id # resp.event_id

\* the ingestion of an event failed while a connection was subscribed that
\* had been sent the updates of another event
C30_Witness ==
    /\ resp.op = "handle_realtime_event"
    /\ resp.status = "raised"
    /\ subscriptions["analytics"] # {}
    /\ \E f \in sent : f.type = "metric_update"
    /\ \E f \in sent : f.type = "chart_update"

\* C8: every chart query of a shop owner is executed, and with the owner's
\* own shop as shop_id: the audit row of each such query records a
\* successful query on that shop
C8_OwnShopOnly ==
    \A k \in DOMAIN auditLog :
        (auditLog[k].user_role = "SHOP_OWNER" /\ auditLog[k].action = "view_chart")
            => /\ auditLog[k].status = "success"
               /\ auditLog[k].shop_id = ShopOfOwner(auditLog[k].user_id)

\* C9: when cleanup_inactive_connections has run, every connection whose
\* last activity was older than the timeout is gone from the registry and
\* from every subscriber set
C9_SweepRemovesIdle ==
    [][ (resp'.op = "cleanup_inactive_connections" /\ resp' # resp)
          => \A c \in DOMAIN active_connections :
               Inactive(c) =>
                   /\ c \notin DOMAIN active_connections'
                   /\ \A t \in Topics : c \notin subscriptions'[t] ]_vars

\* the store holds one event, a payment_completed of amount 5000 for a
\* shop, ingested at this very tick
OnePaymentJustIngested ==
    /\ Len(events) = 1
    /\ events[1].event_type = "payment_completed"
    /\ events[1].data.amount = 5000
    /\ events[1].data.shop_id # Null
    /\ events[1].processed
    /\ events[1].timestamp = now

\* C10: after one payment_completed event of amount 5000 for shop S was
\* ingested into the empty store, the chart query for revenue, 1h and shop S
\* issued at once returns exactly one point, in the hourly bucket of the
\* ingestion, with value 5000
C10_EndToEnd ==
    [][ ( /\ OnePaymentJustIngested
          /\ auditLog' = Append(auditLog,
                AuditRow(auditLog'[Len(auditLog')].user_id,
                         auditLog'[Len(auditLog')].user_role,
                         "view_chart", "revenue", events[1].data.shop_id, "1h", "success"))
          /\ resp'.op = "chart" )
        => /\ Len(resp'.data) = 1
           /\ resp'.data[1].value = 5000
           /\ HourKey(resp'.data[1].timestamp) = HourKey(events[1].timestamp) ]_vars

\* C10 witness: the query for revenue, 1h and the shop of the one payment
\* was answered at the tick of the ingestion
C10_Witness ==
    /\ OnePaymentJustIngested
    /\ resp.op = "chart"
    /\ resp.metric_type = "revenue"
    /\ resp.time_range = "1h"
    /\ resp.shop_id = events[1].data.shop_id
    /\ Len(resp.data) = 1

====
